---- MODULE Spec2Model ----
(***************************************************************************)
(* Rule-evaluation pipeline of the nexus analyzer: the CSV normalizer      *)
(* (services/csv_processor.py), the nexus engine (services/nexus_engine.py)*)
(* and the liability engine (services/liability_engine.py), working on the *)
(* rows of one analysis in the relational store.                           *)
(*                                                                         *)
(* Money is counted in whole currency units (the Decimal columns are       *)
(* Numeric(12,2); one model unit stands for one smallest amount step).     *)
(* Dates are day ordinals 1, 2, ...; a month has DaysPerMonth days and a    *)
(* year twelve months.                                                     *)
(* A nullable column that is NULL holds None.                              *)
(*                                                                         *)
(* The engines are modelled with the column names they use themselves      *)
(* (rule.threshold_type, result.nexus_status, ...); the liability engine   *)
(* reads the status through the name overall_determination.                *)
(***************************************************************************)
EXTENDS Integers, Sequences, FiniteSets, TLC

\* ------------------------------------------------------------------ bounds
MaxTxns == 2          \* transactions in the store of the engine specification
MaxRows == 3          \* rows of a batch in the pipeline specification
MaxCsvRows == 10      \* rows of a batch in the normalizer specification
MaxRuns == 2          \* runs of one stage on the analysis
MaxLocations == 2     \* physical locations of a business profile
DaysPerMonth == 2     \* days of a calendar month

\* --------------------------------------------------------------- constants
None == -999999          \* NULL / NaN
Unparseable == -999998   \* a cell that does not parse
THRESHOLD_WARNING_PERCENTAGE == 80
QUALITY_THRESHOLD == 80
DEFAULT_REGISTRATION_DAYS == 60

States == {"CA", "WY"}
ThresholdType == {"SALES_ONLY", "TRANSACTIONS_ONLY", "EITHER", "BOTH"}
MeasurementPeriod == {"CALENDAR_YEAR", "PREVIOUS_CALENDAR_YEAR", "ROLLING_12_MONTHS"}

MonthsPerYear == 12
DaysPerYear == MonthsPerYear * DaysPerMonth

\* the analysis period: the first modelled year and the first day of the second
PeriodStart == 1
PeriodEnd == DaysPerYear + 1

\* ----------------------------------------------------------------- state
VARIABLES
    nexus_rules,            \* rows of nexus_rules (reference data)
    business_profile,       \* the analysis's business profile row, or NoProfile
    today,                  \* date.today()
    tax_configs,            \* rows of state_tax_config (reference data)
    transactions,           \* rows of transactions of the analysis, in insertion order
    nexus_results,          \* rows of nexus_results of the analysis
    liability_estimates,    \* rows of liability_estimates of the analysis
    csv_result,             \* what the last process_dataframe call returned
    csv_batch,              \* the batch the last process_dataframe call was given
    csv_db_failed,          \* the bulk insert of the last call would raise / raised
    nexus_raised,           \* the last determine_nexus call raised
    liability_raised,       \* the last calculate_liability call raised
    liability_request,      \* the arguments of the last calculate_liability call
    csv_calls, nexus_runs, liability_runs,
    analysis,               \* the analysis row: status and error_message
    task_queue,             \* the task messages waiting in the queue
    s3_file,                \* the uploaded CSV object of the analysis
    last_run,               \* what the last task run did
    api_requests,           \* accepted requests per endpoint
    csv_processor,          \* the attributes of the module-level CSVProcessor
    callers                 \* the process_dataframe calls running in one process

vars == <<nexus_rules, business_profile, today, tax_configs, transactions,
          nexus_results, liability_estimates, csv_result, csv_batch, csv_db_failed,
          nexus_raised, liability_raised, liability_request, csv_calls, nexus_runs,
          liability_runs, analysis, task_queue, s3_file, last_run, api_requests,
          csv_processor, callers>>

\* the state of the task layer and of the shared processor
taskVars == <<analysis, task_queue, s3_file, last_run, api_requests>>
sharedVars == <<csv_processor, callers>>

\* --------------------------------------------------------------- helpers
RECURSIVE SeqSum(_, _)
\* the accumulation loops of the engines: sum of f(row) over rows, in order
SeqSum(rows, idx) ==
    IF idx > Len(rows) THEN 0
    ELSE rows[idx] + SeqSum(rows, idx + 1)

Amounts(rows) == [i \in 1..Len(rows) |-> rows[i].gross_amount]

YearOf(d) == (d - 1) \div DaysPerYear
MonthOf(d) == ((d - 1) % DaysPerYear) \div DaysPerMonth + 1
FirstDayOfYear(y) == y * DaysPerYear + 1
LastDayOfYear(y) == (y + 1) * DaysPerYear

\* float(Decimal): exact for the Numeric(12,2) range (at most 14 significant digits)
ToFloat(x) == x

\* liability_request before the first calculate_liability call
NoRequest == [exemption_rate |-> None, include_penalties |-> FALSE,
              custom_lookback_months |-> None, missing |-> TRUE]

\* AnalysisStatus (models/analysis.py)
AnalysisStatus == {"PENDING", "UPLOADING", "PROCESSING_CSV", "PROCESSING_NEXUS",
                   "PROCESSING_LIABILITY", "GENERATING_REPORT", "COMPLETED", "FAILED",
                   "CANCELLED"}

\* error_message NULL; every message the code writes is a non-empty string
NoMessage == ""

\* no task has run yet
NoRun == [task |-> "", retries |-> 0, raised |-> FALSE, rows_committed |-> 0,
          retry_pending |-> FALSE]

\* a created analysis with no file uploaded and an empty task queue
NoTasks ==
    /\ analysis = [status |-> "PENDING", error_message |-> NoMessage]
    /\ task_queue = {}
    /\ s3_file = None
    /\ last_run = NoRun
    /\ api_requests = [upload |-> 0, nexus |-> 0, liability |-> 0]

\* CSVProcessor.__init__ and no call of process_dataframe under way
NoCallers ==
    /\ csv_processor = [validation_errors |-> <<>>, valid_row_count |-> 0,
                        invalid_row_count |-> 0]
    /\ callers = <<>>

\* ------------------------------------------------- business profile service
NoProfile == [has_physical_presence |-> FALSE, physical_locations |-> <<>>, missing |-> TRUE]

\* faulty variant of get_physical_nexus_states: a location still counts on the
\* day it is closed
get_physical_nexus_states_mut(profile, as_of_date) ==
    IF ~profile.has_physical_presence THEN {}
    ELSE { profile.physical_locations[i].state :
             i \in { j \in 1..Len(profile.physical_locations) :
                       LET location == profile.physical_locations[j]
                       IN  /\ ~(location.established_date # None
                                /\ location.established_date > as_of_date)
                           /\ ~(location.closed_date # None
                                /\ location.closed_date < as_of_date) } }

\* BusinessProfileService.get_physical_nexus_states(profile, as_of_date)
get_physical_nexus_states(profile, as_of_date) ==
    IF ~profile.has_physical_presence THEN {}
    ELSE { profile.physical_locations[i].state :
             i \in { j \in 1..Len(profile.physical_locations) :
                       LET location == profile.physical_locations[j]
                       IN  /\ ~(location.established_date # None
                                /\ location.established_date > as_of_date)
                           /\ ~(location.closed_date # None
                                /\ location.closed_date <= as_of_date) } }

\* ------------------------------------------------------------ nexus engine
\* NexusEngine._calculate_measurement_period
calculate_measurement_period(measurement_period, reference_date) ==
    IF measurement_period = "CALENDAR_YEAR"
    THEN [start |-> FirstDayOfYear(YearOf(reference_date)), end |-> reference_date]
    ELSE IF measurement_period = "PREVIOUS_CALENDAR_YEAR"
    THEN [start |-> FirstDayOfYear(YearOf(reference_date) - 1),
          end   |-> LastDayOfYear(YearOf(reference_date) - 1)]
    ELSE \* ROLLING_12_MONTHS and the default branch
         [start |-> reference_date - DaysPerYear + 1, end |-> reference_date]

\* the query of _check_economic_nexus: the state's transactions inside the window
WindowTransactions(txns, state, period) ==
    SelectSeq(txns, LAMBDA t : /\ t.customer_state = state
                               /\ t.transaction_date >= period.start
                               /\ t.transaction_date <= period.end)

\* the query of _determine_economic_nexus_date: all of the state's transactions
StateTransactions(txns, state) ==
    SelectSeq(txns, LAMBDA t : t.customer_state = state)

\* faulty variant of TaxablePart: marketplace sales are never excluded
TaxablePart_mut(txn, rule) ==
    IF ~txn.is_exempt_sale THEN txn.gross_amount
    ELSE 0

\* the part of a transaction's amount that _check_economic_nexus adds to taxable_sales
TaxablePart(txn, rule) ==
    IF txn.is_marketplace_sale /\ rule.exclude_marketplace_sales THEN 0
    ELSE IF ~txn.is_exempt_sale THEN txn.gross_amount
    ELSE 0

\* the part of a transaction's amount that _check_economic_nexus adds to marketplace_sales
MarketplacePart(txn, rule) ==
    IF txn.is_marketplace_sale /\ rule.exclude_marketplace_sales THEN txn.gross_amount
    ELSE 0

\* comparing a number with a NULL threshold raises TypeError
ThresholdCompareRaises(rule) ==
    CASE rule.threshold_type = "SALES_ONLY" -> rule.sales_threshold = None
      [] rule.threshold_type = "TRANSACTIONS_ONLY" -> rule.transaction_threshold = None
      [] rule.threshold_type \in {"EITHER", "BOTH"} ->
             rule.sales_threshold = None \/ rule.transaction_threshold = None
      [] OTHER -> FALSE

\* faulty variant of ThresholdMet: EITHER asks for both conditions
ThresholdMet_mut(rule, taxable_sales, transaction_count) ==
    CASE rule.threshold_type = "SALES_ONLY" ->
             taxable_sales >= rule.sales_threshold
      [] rule.threshold_type = "TRANSACTIONS_ONLY" ->
             transaction_count >= rule.transaction_threshold
      [] rule.threshold_type \in {"EITHER", "BOTH"} ->
             LET sales_met == taxable_sales >= rule.sales_threshold
                 transactions_met == transaction_count >= rule.transaction_threshold
             IN  sales_met /\ transactions_met
      [] OTHER -> FALSE

\* the threshold test of _check_economic_nexus on the window totals
ThresholdMet(rule, taxable_sales, transaction_count) ==
    CASE rule.threshold_type = "SALES_ONLY" ->
             taxable_sales >= rule.sales_threshold
      [] rule.threshold_type = "TRANSACTIONS_ONLY" ->
             transaction_count >= rule.transaction_threshold
      [] rule.threshold_type = "EITHER" ->
             LET sales_met == taxable_sales >= rule.sales_threshold
                 transactions_met == transaction_count >= rule.transaction_threshold
             IN  sales_met \/ transactions_met
      [] rule.threshold_type = "BOTH" ->
             LET sales_met == taxable_sales >= rule.sales_threshold
                 transactions_met == transaction_count >= rule.transaction_threshold
             IN  sales_met /\ transactions_met
      [] OTHER -> FALSE

\* faulty variant of RunningPart: exempt sales are added to running_sales
RunningPart_mut(txn, rule) ==
    IF ~(txn.is_marketplace_sale /\ rule.exclude_marketplace_sales)
    THEN txn.gross_amount
    ELSE 0

\* the part of a transaction's amount that the date scan adds to running_sales
RunningPart(txn, rule) ==
    IF ~txn.is_exempt_sale /\ ~(txn.is_marketplace_sale /\ rule.exclude_marketplace_sales)
    THEN txn.gross_amount
    ELSE 0

\* faulty variant of ThresholdCrossed: the running totals must exceed the thresholds
ThresholdCrossed_mut(rule, running_sales, running_transactions) ==
    CASE rule.threshold_type = "SALES_ONLY" ->
             running_sales > rule.sales_threshold
      [] rule.threshold_type = "TRANSACTIONS_ONLY" ->
             running_transactions > rule.transaction_threshold
      [] rule.threshold_type = "EITHER" ->
             running_sales > rule.sales_threshold
                 \/ running_transactions > rule.transaction_threshold
      [] rule.threshold_type = "BOTH" ->
             running_sales > rule.sales_threshold
                 /\ running_transactions > rule.transaction_threshold
      [] OTHER -> FALSE

\* the threshold test of _determine_economic_nexus_date on the running totals
ThresholdCrossed(rule, running_sales, running_transactions) ==
    CASE rule.threshold_type = "SALES_ONLY" ->
             running_sales >= rule.sales_threshold
      [] rule.threshold_type = "TRANSACTIONS_ONLY" ->
             running_transactions >= rule.transaction_threshold
      [] rule.threshold_type = "EITHER" ->
             running_sales >= rule.sales_threshold
                 \/ running_transactions >= rule.transaction_threshold
      [] rule.threshold_type = "BOTH" ->
             running_sales >= rule.sales_threshold
                 /\ running_transactions >= rule.transaction_threshold
      [] OTHER -> FALSE

RECURSIVE ScanForCrossing(_, _, _, _, _)
\* the loop of _determine_economic_nexus_date over the date-ordered transactions
ScanForCrossing(ordered, rule, idx, running_sales, running_transactions) ==
    IF idx > Len(ordered) THEN None
    ELSE LET txn == ordered[idx]
             sales == running_sales + RunningPart(txn, rule)
             count == running_transactions + 1
         IN  IF ThresholdCrossed(rule, sales, count)
             THEN txn.transaction_date
             ELSE ScanForCrossing(ordered, rule, idx + 1, sales, count)

\* NexusEngine._determine_economic_nexus_date; ordered is the result of the
\* query ORDER BY transaction_date (period_end is not used by the code)
determine_economic_nexus_date(ordered, state, rule, period_end) ==
    LET state_txns == StateTransactions(ordered, state)
    IN  IF Len(state_txns) = 0 THEN None
        ELSE ScanForCrossing(state_txns, rule, 1, 0, 0)

\* faulty variant of check_close_to_threshold: the warning needs more than 80%
check_close_to_threshold_mut(taxable_sales, transaction_count, rule) ==
    LET sales_close ==
            /\ rule.threshold_type \in {"SALES_ONLY", "EITHER", "BOTH"}
            /\ rule.sales_threshold # None /\ rule.sales_threshold # 0
            /\ 100 * taxable_sales > THRESHOLD_WARNING_PERCENTAGE * rule.sales_threshold
            /\ taxable_sales < rule.sales_threshold
        txn_close ==
            /\ rule.threshold_type \in {"TRANSACTIONS_ONLY", "EITHER", "BOTH"}
            /\ rule.transaction_threshold # None /\ rule.transaction_threshold # 0
            /\ 100 * transaction_count
                   > THRESHOLD_WARNING_PERCENTAGE * rule.transaction_threshold
            /\ transaction_count < rule.transaction_threshold
    IN  sales_close \/ txn_close

\* NexusEngine._check_close_to_threshold (is_close only)
check_close_to_threshold(taxable_sales, transaction_count, rule) ==
    LET sales_close ==
            /\ rule.threshold_type \in {"SALES_ONLY", "EITHER", "BOTH"}
            /\ rule.sales_threshold # None /\ rule.sales_threshold # 0
            /\ 100 * taxable_sales >= THRESHOLD_WARNING_PERCENTAGE * rule.sales_threshold
            /\ taxable_sales < rule.sales_threshold
        txn_close ==
            /\ rule.threshold_type \in {"TRANSACTIONS_ONLY", "EITHER", "BOTH"}
            /\ rule.transaction_threshold # None /\ rule.transaction_threshold # 0
            /\ 100 * transaction_count
                   >= THRESHOLD_WARNING_PERCENTAGE * rule.transaction_threshold
            /\ transaction_count < rule.transaction_threshold
    IN  sales_close \/ txn_close

\* NexusEngine._check_economic_nexus; txns is the table, ordered the table in
\* the order the ORDER BY transaction_date query returns it
check_economic_nexus(txns, ordered, state, rule, period_end_date) ==
    LET period == calculate_measurement_period(rule.measurement_period, period_end_date)
        window == WindowTransactions(txns, state, period)
        total_sales == SeqSum(Amounts(window), 1)
        taxable_sales == SeqSum([i \in 1..Len(window) |-> TaxablePart(window[i], rule)], 1)
        marketplace_sales ==
            SeqSum([i \in 1..Len(window) |-> MarketplacePart(window[i], rule)], 1)
        transaction_count == Len(window)
    IN  IF ThresholdCompareRaises(rule)
        THEN [raised |-> TRUE, has_nexus |-> FALSE, nexus_date |-> None,
              total_sales |-> 0, taxable_sales |-> 0, transaction_count |-> 0,
              marketplace_sales |-> 0, close_to_threshold |-> FALSE]
        ELSE LET has_nexus == ThresholdMet(rule, taxable_sales, transaction_count)
             IN  [raised |-> FALSE,
                  has_nexus |-> has_nexus,
                  nexus_date |-> IF has_nexus
                                 THEN determine_economic_nexus_date(ordered, state, rule,
                                                                    period.end)
                                 ELSE None,
                  total_sales |-> ToFloat(total_sales),
                  taxable_sales |-> ToFloat(taxable_sales),
                  transaction_count |-> transaction_count,
                  marketplace_sales |-> ToFloat(marketplace_sales),
                  close_to_threshold |->
                      check_close_to_threshold(taxable_sales, transaction_count, rule)]

RECURSIVE EarliestEstablished(_, _, _, _)
\* the loop of _determine_physical_nexus_date
EarliestEstablished(locations, state, idx, earliest_date) ==
    IF idx > Len(locations) THEN earliest_date
    ELSE LET location == locations[idx]
             next == IF /\ location.state = state
                        /\ location.established_date # None
                        /\ (earliest_date = None
                            \/ location.established_date < earliest_date)
                     THEN location.established_date
                     ELSE earliest_date
         IN  EarliestEstablished(locations, state, idx + 1, next)

\* NexusEngine._determine_physical_nexus_date
determine_physical_nexus_date(profile, state) ==
    IF profile.missing \/ Len(profile.physical_locations) = 0 THEN None
    ELSE EarliestEstablished(profile.physical_locations, state, 1, None)

\* NexusEngine._calculate_confidence_level; the economic result carries no
\* 'sales_threshold' key, so .get('sales_threshold', 0) is 0
calculate_confidence_level(has_physical_nexus, economic_result) ==
    IF has_physical_nexus THEN "HIGH"
    ELSE IF economic_result.has_nexus THEN
        LET sales_threshold == 0
        IN  IF /\ economic_result.taxable_sales > 0
               /\ sales_threshold # 0
               /\ 2 * economic_result.taxable_sales >= 3 * sales_threshold
            THEN "HIGH"
            ELSE "MEDIUM"
    ELSE IF economic_result.close_to_threshold THEN "MEDIUM"
    ELSE IF economic_result.transaction_count < 10 THEN "LOW"
    ELSE "HIGH"

\* NexusEngine._calculate_registration_deadline
calculate_registration_deadline(nexus_date, threshold_days) ==
    nexus_date + threshold_days

\* faulty variant of NexusStatusOf: economic nexus is tested first
NexusStatusOf_mut(has_physical_nexus, economic_result) ==
    IF economic_result.has_nexus THEN "NEXUS_ECONOMIC"
    ELSE IF has_physical_nexus THEN "NEXUS_PHYSICAL"
    ELSE IF economic_result.close_to_threshold THEN "CLOSE_TO_THRESHOLD"
    ELSE "NO_NEXUS"

\* the if/elif chain of determine_nexus that sets nexus_status
NexusStatusOf(has_physical_nexus, economic_result) ==
    IF has_physical_nexus THEN "NEXUS_PHYSICAL"
    ELSE IF economic_result.has_nexus THEN "NEXUS_ECONOMIC"
    ELSE IF economic_result.close_to_threshold THEN "CLOSE_TO_THRESHOLD"
    ELSE "NO_NEXUS"

\* the body of the per-rule loop of determine_nexus: the NexusResult of one rule
NexusResultFor(txns, ordered, profile, physical_states, rule, period_end) ==
    LET state == rule.state_code
        has_physical_nexus == state \in physical_states
        economic_result == check_economic_nexus(txns, ordered, state, rule, period_end)
        nexus_status == NexusStatusOf(has_physical_nexus, economic_result)
        nexus_date ==
            IF has_physical_nexus THEN determine_physical_nexus_date(profile, state)
            ELSE IF economic_result.has_nexus THEN economic_result.nexus_date
            ELSE None
        registration_deadline ==
            IF nexus_date # None /\ nexus_status \in {"NEXUS_PHYSICAL", "NEXUS_ECONOMIC"}
            THEN calculate_registration_deadline(
                     nexus_date,
                     IF rule.registration_threshold_days \in {None, 0}
                     THEN DEFAULT_REGISTRATION_DAYS
                     ELSE rule.registration_threshold_days)
            ELSE None
    IN  [raised |-> economic_result.raised,
         state |-> state,
         nexus_status |-> nexus_status,
         nexus_date |-> nexus_date,
         physical_nexus |-> has_physical_nexus,
         economic_nexus |-> economic_result.has_nexus,
         total_sales |-> economic_result.total_sales,
         taxable_sales |-> economic_result.taxable_sales,
         transaction_count |-> economic_result.transaction_count,
         sales_threshold |-> rule.sales_threshold,
         transaction_threshold |-> rule.transaction_threshold,
         threshold_type |-> rule.threshold_type,
         measurement_period |-> rule.measurement_period,
         confidence_level |-> calculate_confidence_level(has_physical_nexus, economic_result),
         registration_deadline |-> registration_deadline,
         close_to_threshold |-> economic_result.close_to_threshold]

\* the orders in which a query ORDER BY transaction_date may return the table:
\* rows of equal date come in an order the database chooses
DateOrders(txns) ==
    LET n == Len(txns)
        perms == { f \in [1..n -> 1..n] : \A i, j \in 1..n : i # j => f[i] # f[j] }
    IN  { [i \in 1..n |-> txns[f[i]]] :
            f \in { g \in perms :
                      \A i, j \in 1..n :
                          i < j => txns[g[i]].transaction_date <= txns[g[j]].transaction_date } }

\* the NexusResult rows one run of determine_nexus builds, one per rule
DetermineNexusResults(txns, ordered, profile, rules, as_of_date, period_end) ==
    LET physical_states ==
            IF profile.missing THEN {} ELSE get_physical_nexus_states(profile, as_of_date)
    IN  [i \in 1..Len(rules) |->
            NexusResultFor(txns, ordered, profile, physical_states, rules[i], period_end)]

\* NexusEngine.determine_nexus: one NexusResult per rule is added and all are
\* committed together; a rule whose evaluation raises aborts the run before
\* the commit
DetermineNexus ==
    /\ \E ordered \in DateOrders(transactions) :
         LET results == DetermineNexusResults(transactions, ordered, business_profile,
                                              nexus_rules, today, PeriodEnd)
         IN  IF \E i \in 1..Len(results) : results[i].raised
             THEN /\ nexus_raised' = TRUE
                  /\ UNCHANGED nexus_results
             ELSE /\ nexus_raised' = FALSE
                  /\ nexus_results' = nexus_results \o results
    /\ nexus_runs' = nexus_runs + 1
    /\ UNCHANGED <<nexus_rules, business_profile, today, tax_configs, transactions,
                   liability_estimates, csv_result, csv_batch, csv_db_failed,
                   liability_raised, liability_request, csv_calls, liability_runs,
                   taskVars, sharedVars>>

\* --------------------------------------------------------- liability engine
DEFAULT_EXEMPTION_RATE == 10      \* percent
DEFAULT_PENALTY_RATE == 10        \* percent
MONTHLY_INTEREST_RATE == 1        \* percent per month
DEFAULT_LOOKBACK_MONTHS == 36
MAX_LOOKBACK_MONTHS == 48

\* Money of the liability engine is kept exact: taxable_sales in 1/100 units,
\* the three estimates in 1/20000 units (rates are whole percents, the mid
\* rate adds half the local rate), penalty, interest and their total in
\* 1/2000000 units.
EstimateScale == 20000

Min(a, b) == IF a < b THEN a ELSE b
Max(a, b) == IF a > b THEN a ELSE b

\* the row StateTaxConfig ... .first() returns for a state, or NoConfig
NoConfig == [state_code |-> "", state_tax_rate |-> 0, avg_local_tax_rate |-> 0,
             has_sales_tax |-> FALSE, missing |-> TRUE]
TaxConfigOf(configs, state) ==
    LET hits == { i \in 1..Len(configs) : configs[i].state_code = state }
    IN  IF hits = {} THEN NoConfig
        ELSE configs[CHOOSE i \in hits : \A j \in hits : i <= j]

\* faulty variant of MidRate: the local rate is added one and a half times
MidRate_mut(state_rate, avg_local_rate) == 2 * state_rate + 3 * avg_local_rate

\* mid_rate = state_rate + avg_local_rate * 0.5, in half percents
MidRate(state_rate, avg_local_rate) == 2 * state_rate + avg_local_rate

\* LiabilityEngine._calculate_period_liability; exemption_rate in percent
calculate_period_liability(txns, state, tax_config, period_start, period_end, exemption_rate) ==
    LET window == SelectSeq(txns, LAMBDA t : /\ t.customer_state = state
                                             /\ t.transaction_date >= period_start
                                             /\ t.transaction_date <= period_end)
        gross_sales == SeqSum(Amounts(window), 1)
        exempt_sales ==
            SeqSum([i \in 1..Len(window) |->
                      IF window[i].is_exempt_sale THEN window[i].gross_amount ELSE 0], 1)
        marketplace_sales ==
            SeqSum([i \in 1..Len(window) |->
                      IF window[i].is_marketplace_sale THEN window[i].gross_amount ELSE 0], 1)
        potentially_taxable == gross_sales - marketplace_sales - exempt_sales
        additional_exempt == potentially_taxable * exemption_rate
        taxable_sales == Max(potentially_taxable * 100 - additional_exempt, 0)
        state_rate == tax_config.state_tax_rate
        avg_local_rate == IF tax_config.avg_local_tax_rate = None THEN 0
                          ELSE tax_config.avg_local_tax_rate
    IN  [gross_sales |-> gross_sales,
         exempt_sales |-> exempt_sales,
         marketplace_sales |-> marketplace_sales,
         potentially_taxable |-> potentially_taxable,
         taxable_sales |-> taxable_sales,
         low_estimate |-> taxable_sales * 2 * state_rate,
         mid_estimate |-> taxable_sales * MidRate(state_rate, avg_local_rate),
         high_estimate |-> taxable_sales * 2 * (state_rate + avg_local_rate)]

\* LiabilityEngine._determine_lookback_period
determine_lookback_period(state, nexus_date, current_date) ==
    IF nexus_date = None THEN 0
    ELSE LET months_since_nexus ==
                 (YearOf(current_date) - YearOf(nexus_date)) * 12
                     + (MonthOf(current_date) - MonthOf(nexus_date))
         IN  Max(0, Min(Min(months_since_nexus, DEFAULT_LOOKBACK_MONTHS),
                        MAX_LOOKBACK_MONTHS))

\* LiabilityEngine._calculate_lookback_dates
calculate_lookback_dates(nexus_date, lookback_months) ==
    [start |-> nexus_date - lookback_months * DaysPerMonth, end |-> nexus_date]

\* LiabilityEngine._calculate_penalties; liability_amount in 1/20000 units,
\* the results in 1/2000000 units
calculate_penalties(liability_amount, registration_deadline, current_date) ==
    IF current_date <= registration_deadline
    THEN [penalty |-> 0, interest |-> 0]
    ELSE LET months_late ==
                 (YearOf(current_date) - YearOf(registration_deadline)) * 12
                     + (MonthOf(current_date) - MonthOf(registration_deadline))
         IN  [penalty |-> liability_amount * DEFAULT_PENALTY_RATE,
              interest |-> liability_amount * MONTHLY_INTEREST_RATE * months_late]

\* faulty variant of assess_risk: four points are HIGH already
assess_risk_mut(state, liability_amount, nexus_status, confidence_level, has_penalties) ==
    LET high_risk_factors ==
              (IF nexus_status = "NEXUS_PHYSICAL" THEN 2 ELSE 0)
            + (IF liability_amount > 50000 * EstimateScale THEN 2
               ELSE IF liability_amount > 10000 * EstimateScale THEN 1 ELSE 0)
            + (IF has_penalties THEN 3 ELSE 0)
            - (IF confidence_level = "LOW" THEN 1 ELSE 0)
    IN  IF high_risk_factors >= 4 THEN "HIGH"
        ELSE IF high_risk_factors >= 3 THEN "MEDIUM"
        ELSE "LOW"

\* LiabilityEngine._assess_risk; liability_amount in 1/20000 units
assess_risk(state, liability_amount, nexus_status, confidence_level, has_penalties) ==
    LET high_risk_factors ==
              (IF nexus_status = "NEXUS_PHYSICAL" THEN 2 ELSE 0)
            + (IF liability_amount > 50000 * EstimateScale THEN 2
               ELSE IF liability_amount > 10000 * EstimateScale THEN 1 ELSE 0)
            + (IF has_penalties THEN 3 ELSE 0)
            - (IF confidence_level = "LOW" THEN 1 ELSE 0)
    IN  IF high_risk_factors >= 5 THEN "HIGH"
        ELSE IF high_risk_factors >= 3 THEN "MEDIUM"
        ELSE "LOW"

\* faulty variant of NexusStatusFilter: CLOSE_TO_THRESHOLD rows pass as well
NexusStatusFilter_mut(r) ==
    r.nexus_status \in {"NEXUS_PHYSICAL", "NEXUS_ECONOMIC", "CLOSE_TO_THRESHOLD"}

\* the filter of the query of calculate_liability: the NexusResult rows of the
\* analysis whose status is a nexus status
NexusStatusFilter(r) == r.nexus_status \in {"NEXUS_PHYSICAL", "NEXUS_ECONOMIC"}

\* the body of the per-result loop of calculate_liability: the LiabilityEstimate
\* built for the NexusResult with id result_id
LiabilityEstimateFor(txns, configs, results, result_id, current_date, exemption_rate, include_penalties, custom_lookback_months) ==
    LET nexus_result == results[result_id]
        state == nexus_result.state
        tax_config == TaxConfigOf(configs, state)
        period_liability ==
            calculate_period_liability(txns, state, tax_config, PeriodStart, PeriodEnd,
                                       exemption_rate)
        \* custom_lookback_months or ...: a custom value of 0 is falsy
        lookback_months ==
            IF custom_lookback_months # None /\ custom_lookback_months # 0
            THEN custom_lookback_months
            ELSE determine_lookback_period(state, nexus_result.nexus_date, current_date)
        has_lookback == nexus_result.nexus_date # None /\ lookback_months > 0
        lookback_dates == calculate_lookback_dates(nexus_result.nexus_date, lookback_months)
        lookback_liability ==
            calculate_period_liability(txns, state, tax_config, lookback_dates.start,
                                       lookback_dates.end, exemption_rate)
        late == /\ include_penalties
                /\ nexus_result.registration_deadline # None
                /\ current_date > nexus_result.registration_deadline
        penalties == calculate_penalties(period_liability.mid_estimate,
                                         nexus_result.registration_deadline, current_date)
        \* period_liability['mid_estimate'] + penalty_amount + interest_amount adds
        \* a float and a Decimal, which raises TypeError
        total == period_liability.mid_estimate * 100 + penalties.penalty + penalties.interest
        \* bool(penalty_amount): a penalty of zero is falsy
        has_penalties == late /\ penalties.penalty # 0
    IN  [raised |-> late,
         state |-> state,
         nexus_result_id |-> result_id,
         gross_sales |-> period_liability.gross_sales,
         exempt_sales |-> period_liability.exempt_sales,
         marketplace_sales |-> period_liability.marketplace_sales,
         taxable_sales |-> period_liability.taxable_sales,
         state_tax_rate |-> tax_config.state_tax_rate,
         avg_local_tax_rate |-> IF tax_config.avg_local_tax_rate \in {None, 0} THEN None
                                ELSE tax_config.avg_local_tax_rate,
         estimated_liability_low |-> period_liability.low_estimate,
         estimated_liability_mid |-> period_liability.mid_estimate,
         estimated_liability_high |-> period_liability.high_estimate,
         lookback_period_months |-> lookback_months,
         lookback_start_date |-> IF has_lookback THEN lookback_dates.start ELSE None,
         lookback_end_date |-> IF has_lookback THEN lookback_dates.end ELSE None,
         lookback_liability_estimate |->
             IF has_lookback THEN lookback_liability.mid_estimate ELSE None,
         \* float(x) if x else None: a zero amount is stored as NULL
         penalty_amount |-> IF late /\ penalties.penalty # 0 THEN penalties.penalty ELSE None,
         interest_amount |-> IF late /\ penalties.interest # 0 THEN penalties.interest
                             ELSE None,
         total_liability_with_penalties |-> IF late /\ total # 0 THEN total ELSE None,
         exemption_rate_assumed |-> exemption_rate,
         risk_level |-> assess_risk(state, period_liability.mid_estimate,
                                    nexus_result.nexus_status,
                                    nexus_result.confidence_level, has_penalties)]

SkipsState_mut(tax_config) ==
    tax_config.missing \/ tax_config.state_tax_rate = 0

\* if not tax_config or not tax_config.has_sales_tax: continue
SkipsState(tax_config) ==
    tax_config.missing \/ ~tax_config.has_sales_tax

\* the LiabilityEstimate rows one run of calculate_liability builds: one per
\* NexusResult row with a nexus status whose state has a usable tax
\* configuration, in table order
CalculateLiabilityEstimates(txns, configs, results, current_date, exemption_rate, include_penalties, custom_lookback_months) ==
    LET ids == SelectSeq([i \in 1..Len(results) |-> i],
                         LAMBDA i : /\ NexusStatusFilter(results[i])
                                    /\ ~SkipsState(TaxConfigOf(configs, results[i].state)))
    IN  [k \in 1..Len(ids) |->
            LiabilityEstimateFor(txns, configs, results, ids[k], current_date,
                                 exemption_rate, include_penalties, custom_lookback_months)]

\* LiabilityEngine.calculate_liability: the estimates of one run are added and
\* committed together; exemption_rate None takes the default; a result whose
\* penalty computation raises aborts the run before the commit
CalculateLiability(exemption_rate, include_penalties, custom_lookback_months) ==
    /\ LET estimates ==
               CalculateLiabilityEstimates(
                   transactions, tax_configs, nexus_results, today,
                   IF exemption_rate = None THEN DEFAULT_EXEMPTION_RATE
                   ELSE exemption_rate,
                   include_penalties, custom_lookback_months)
       IN  IF \E i \in 1..Len(estimates) : estimates[i].raised
           THEN /\ liability_raised' = TRUE
                /\ UNCHANGED liability_estimates
           ELSE /\ liability_raised' = FALSE
                /\ liability_estimates' = liability_estimates \o estimates
    /\ liability_request' = [exemption_rate |-> exemption_rate,
                             include_penalties |-> include_penalties,
                             custom_lookback_months |-> custom_lookback_months]
    /\ liability_runs' = liability_runs + 1
    /\ UNCHANGED <<nexus_rules, business_profile, today, tax_configs, transactions,
                   nexus_results, csv_result, csv_batch, csv_db_failed, nexus_raised,
                   csv_calls, nexus_runs, taskVars, sharedVars>>

\* ---------------------------------------------- engine specification inputs
SalesThreshold == 5
TransactionThreshold == 2
AmountSeq == <<-1, 1, 4, 5>>
\* a day before the rolling window, its first day and its last day
DateSeq == <<1, 2, PeriodEnd>>
FlagSeq == <<[m |-> FALSE, e |-> FALSE], [m |-> TRUE, e |-> FALSE],
             [m |-> FALSE, e |-> TRUE], [m |-> TRUE, e |-> TRUE]>>
KindCount == Len(DateSeq) * Len(AmountSeq) * Len(FlagSeq)

\* the k-th kind of transaction of the engine specification
Kind(k) ==
    LET d == k % Len(DateSeq)
        a == (k \div Len(DateSeq)) % Len(AmountSeq)
        f == k \div (Len(DateSeq) * Len(AmountSeq))
    IN  [transaction_date |-> DateSeq[d + 1], gross_amount |-> AmountSeq[a + 1],
         is_marketplace_sale |-> FlagSeq[f + 1].m, is_exempt_sale |-> FlagSeq[f + 1].e]

\* the tables of at most MaxTxns transactions of state "CA", one per multiset
\* of kinds (the engine reads the table through sums and through DateOrders)
EconTables ==
    UNION { { [i \in 1..n |-> [transaction_date |-> Kind(s[i]).transaction_date,
                               customer_state |-> "CA",
                               gross_amount |-> Kind(s[i]).gross_amount,
                               is_marketplace_sale |-> Kind(s[i]).is_marketplace_sale,
                               is_exempt_sale |-> Kind(s[i]).is_exempt_sale,
                               original_row_number |-> i + 1]] :
                s \in { t \in [1..n -> 0..(KindCount - 1)] :
                          \A i \in 1..n : i < n => t[i] <= t[i + 1] } } :
            n \in 0..MaxTxns }

EconRules ==
    { [state_code |-> "CA", threshold_type |-> tt, sales_threshold |-> st,
       transaction_threshold |-> ct, measurement_period |-> mp,
       exclude_marketplace_sales |-> ex, registration_threshold_days |-> None] :
        tt \in ThresholdType, st \in {None, SalesThreshold},
        ct \in {None, TransactionThreshold}, mp \in MeasurementPeriod, ex \in BOOLEAN }

InitEcon ==
    /\ nexus_rules \in { <<r>> : r \in { q \in EconRules :
                                          /\ q.sales_threshold # None
                                               \/ q.transaction_threshold # None
                                          /\ ThresholdCompareRaises(q)
                                               => q.threshold_type = "EITHER" } }
    /\ business_profile = NoProfile
    /\ today = PeriodEnd + 1
    /\ tax_configs = <<>>
    /\ transactions \in EconTables
    /\ nexus_results = <<>>
    /\ liability_estimates = <<>>
    /\ csv_result = [called |-> FALSE]
    /\ csv_batch = <<>>
    /\ csv_db_failed = FALSE
    /\ nexus_raised = FALSE
    /\ liability_raised = FALSE
    /\ liability_request = NoRequest
    /\ csv_calls = 0 /\ nexus_runs = 0 /\ liability_runs = 0
    /\ NoTasks /\ NoCallers

NextEcon == nexus_runs < 1 /\ DetermineNexus

SpecEcon == InitEcon /\ [][NextEcon]_vars

\* ----------------------------------------------------------- CSV normalizer
\* A row of the parsed DataFrame: transaction_date is a parsable date (its day
\* ordinal), Unparseable or None (NaN); customer_state is the stripped,
\* upper-cased cell or "<NA>"; gross_amount is a number, Unparseable or None;
\* marketplace_name is a name, "<NA>" (NaN) or "<absent>" when the DataFrame
\* has no such column; is_exempt is the boolean cell.
STATE_NAMES_TO_CODES == [n \in {"CALIFORNIA", "WYOMING"} |->
                            IF n = "CALIFORNIA" THEN "CA" ELSE "WY"]

\* CSVProcessor.validate_and_convert_date
validate_and_convert_date(date_value) ==
    IF date_value \in {None, Unparseable} THEN None ELSE date_value

\* CSVProcessor.validate_and_convert_state ("" stands for the None result)
validate_and_convert_state(state_value) ==
    IF state_value = "<NA>" THEN ""
    ELSE IF state_value \in States THEN state_value
    ELSE IF state_value \in DOMAIN STATE_NAMES_TO_CODES
    THEN STATE_NAMES_TO_CODES[state_value]
    ELSE ""

\* faulty variant of validate_and_convert_amount: a NaN cell has no amount
validate_and_convert_amount_mut(amount_value) ==
    IF amount_value = None THEN Unparseable
    ELSE IF amount_value = Unparseable THEN Unparseable
    ELSE amount_value

\* CSVProcessor.validate_and_convert_amount (Unparseable stands for the None result)
validate_and_convert_amount(amount_value) ==
    IF amount_value = None THEN 0
    ELSE IF amount_value = Unparseable THEN Unparseable
    ELSE amount_value

\* row.get(column, default): the cell, or the default when the DataFrame has
\* no such column (the row record has no such field)
RowGet(row, column, default) ==
    IF column \in DOMAIN row THEN row[column] ELSE default

\* CSVProcessor.validate_row; the date, state and amount columns are present
validate_row(row, row_number) ==
    LET transaction_date == validate_and_convert_date(row.transaction_date)
        customer_state == validate_and_convert_state(row.customer_state)
        gross_amount == validate_and_convert_amount(row.gross_amount)
        errors ==
            (IF row.transaction_date = None THEN <<"Missing transaction date">> ELSE <<>>)
            \o (IF row.customer_state = "<NA>" THEN <<"Missing customer state">> ELSE <<>>)
            \o (IF row.gross_amount = None THEN <<"Missing gross amount">> ELSE <<>>)
            \o (IF transaction_date = None THEN <<"Invalid date format">> ELSE <<>>)
            \o (IF customer_state = "" THEN <<"Invalid state code">> ELSE <<>>)
            \o (IF gross_amount = Unparseable THEN <<"Invalid amount">> ELSE <<>>)
    IN  IF errors # <<>>
        THEN [is_valid |-> FALSE,
              result |-> [row_number |-> row_number, errors |-> errors, data |-> row]]
        ELSE [is_valid |-> TRUE,
              result |-> [transaction_date |-> transaction_date,
                          customer_state |-> customer_state,
                          gross_amount |-> gross_amount,
                          tax_collected |->
                              validate_and_convert_amount(RowGet(row, "tax_collected", 0)),
                          shipping_amount |->
                              validate_and_convert_amount(RowGet(row, "shipping_amount", 0)),
                          \* bool(cell) if the column exists: a NaN cell and a
                          \* name are both truthy
                          is_marketplace_sale |-> row.marketplace_name # "<absent>",
                          is_exempt_sale |-> row.is_exempt,
                          original_row_number |-> row_number]]

RECURSIVE ValidateRows(_, _)
\* the row loop of process_dataframe: the validate_row outcome of every row
ValidateRows(df, idx) ==
    IF idx > Len(df) THEN <<>>
    ELSE <<validate_row(df[idx], idx + 1)>> \o ValidateRows(df, idx + 1)

\* faulty variant of ValidTransactions: the last valid row is lost
ValidTransactions_mut(outcomes) ==
    LET valid == SelectSeq(outcomes, LAMBDA o : o.is_valid)
    IN  [i \in 1..(Len(valid) - 1) |-> valid[i].result]

\* the valid_transactions list the row loop of process_dataframe collects
ValidTransactions(outcomes) ==
    LET valid == SelectSeq(outcomes, LAMBDA o : o.is_valid)
    IN  [i \in 1..Len(valid) |-> valid[i].result]

\* faulty variant of QualityGateRejects: a batch with exactly 80% is rejected
QualityGateRejects_mut(valid_row_count, total_rows) ==
    total_rows = 0 \/ 100 * valid_row_count <= QUALITY_THRESHOLD * total_rows

\* the quality gate of process_dataframe: valid/total*100 < 80, with 0 for an
\* empty batch. The code computes it in floating point; for fewer than 10^13
\* rows it agrees with the exact comparison used here.
QualityGateRejects(valid_row_count, total_rows) ==
    total_rows = 0 \/ 100 * valid_row_count < QUALITY_THRESHOLD * total_rows

\* faulty variant of quality_percentage: the share of the invalid rows
quality_percentage_mut(valid_row_count, total_rows) ==
    IF total_rows > 0 THEN <<(total_rows - valid_row_count) * 100, total_rows>> ELSE <<0, 1>>

\* quality_percentage = valid_row_count / total_rows * 100, 0 for an empty
\* batch; kept as the fraction <<numerator, denominator>>
quality_percentage(valid_row_count, total_rows) ==
    IF total_rows > 0 THEN <<valid_row_count * 100, total_rows>> ELSE <<0, 1>>

\* format(x, ".1f") of the fraction x = <<n, d>>, n >= 0: the nearest tenth,
\* a tie going to the even tenth
FormatOneDecimal(x) ==
    LET q == (10 * x[1]) \div x[2]
        r == (10 * x[1]) % x[2]
        tenths == IF 2 * r < x[2] THEN q
                  ELSE IF 2 * r > x[2] THEN q + 1
                  ELSE IF q % 2 = 0 THEN q ELSE q + 1
    IN  ToString(tenths \div 10) \o "." \o ToString(tenths % 10)

\* the error message of a batch rejected for its quality
QualityError(valid_row_count, total_rows) ==
    "Data quality too low: "
        \o FormatOneDecimal(quality_percentage(valid_row_count, total_rows))
        \o "% valid rows (minimum 80% required)"

\* CSVProcessor.process_dataframe: what it returns and what it persists
process_dataframe(df, db_fails) ==
    LET outcomes == ValidateRows(df, 1)
        invalid == SelectSeq(outcomes, LAMBDA o : ~o.is_valid)
        valid_transactions == ValidTransactions(outcomes)
        validation_errors == [i \in 1..Len(invalid) |-> invalid[i].result]
        valid_row_count == Len(valid_transactions)
        invalid_row_count == Len(invalid)
        total_rows == Len(df)
        below == QualityGateRejects(valid_row_count, total_rows)
        capped == SubSeq(validation_errors, 1,
                         IF Len(validation_errors) < 100 THEN Len(validation_errors) ELSE 100)
    IN  IF below
        THEN [persisted |-> <<>>,
              result |-> [called |-> TRUE, success |-> FALSE,
                          error |-> QualityError(valid_row_count, total_rows),
                          valid_rows |-> valid_row_count, invalid_rows |-> invalid_row_count,
                          total_rows |-> total_rows, validation_errors |-> capped]]
        ELSE IF db_fails
        THEN [persisted |-> <<>>,
              result |-> [called |-> TRUE, success |-> FALSE, error |-> "Database error",
                          valid_rows |-> valid_row_count, invalid_rows |-> invalid_row_count,
                          total_rows |-> None, validation_errors |-> <<>>]]
        ELSE [persisted |-> valid_transactions,
              result |-> [called |-> TRUE, success |-> TRUE, error |-> "",
                          valid_rows |-> valid_row_count, invalid_rows |-> invalid_row_count,
                          total_rows |-> total_rows, validation_errors |-> capped]]

\* one call of process_dataframe on the batch df
ProcessDataframe(df, db_fails) ==
    LET out == process_dataframe(df, db_fails)
    IN  /\ transactions' = transactions \o out.persisted
        /\ csv_result' = out.result
        /\ csv_batch' = df
        /\ csv_db_failed' = db_fails
        /\ csv_calls' = csv_calls + 1
        /\ UNCHANGED <<nexus_rules, business_profile, today, tax_configs, nexus_results,
                       liability_estimates, nexus_raised, liability_raised,
                       liability_request, nexus_runs, liability_runs, taskVars,
                       sharedVars>>

\* ------------------------------------------- normalizer specification inputs
GoodRow == [transaction_date |-> 1, customer_state |-> "CALIFORNIA", gross_amount |-> 1,
            marketplace_name |-> "<absent>", is_exempt |-> FALSE]
BadDateRow == [GoodRow EXCEPT !.transaction_date = Unparseable]
CsvRowKinds == {GoodRow, BadDateRow}
CsvBatches == UNION { [1..n -> CsvRowKinds] : n \in 0..MaxCsvRows }

InitCsv ==
    /\ nexus_rules = <<>>
    /\ business_profile = NoProfile
    /\ today = PeriodEnd + 1
    /\ tax_configs = <<>>
    /\ transactions = <<>>
    /\ nexus_results = <<>>
    /\ liability_estimates = <<>>
    /\ csv_result = [called |-> FALSE]
    /\ csv_batch = <<>>
    /\ csv_db_failed = FALSE
    /\ nexus_raised = FALSE
    /\ liability_raised = FALSE
    /\ liability_request = NoRequest
    /\ csv_calls = 0 /\ nexus_runs = 0 /\ liability_runs = 0
    /\ NoTasks /\ NoCallers

NextCsv == csv_calls < 1 /\ \E df \in CsvBatches, db_fails \in BOOLEAN :
                                ProcessDataframe(df, db_fails)

SpecCsv == InitCsv /\ [][NextCsv]_vars

\* ------------------------------------------------- row specification inputs
\* One call of process_dataframe on a file of one row; the file has or lacks
\* the tax and shipping columns, and a cell of these is blank (NaN), zero or
\* an amount.
\* the row with the cell of one more column
WithColumn(row, has_column, column, cell) ==
    IF has_column THEN row @@ (column :> cell) ELSE row

RowInputs ==
    { WithColumn(WithColumn([transaction_date |-> date, customer_state |-> state,
                             gross_amount |-> gross, marketplace_name |-> "<absent>",
                             is_exempt |-> FALSE],
                            has_tax, "tax_collected", tax),
                 has_shipping, "shipping_amount", shipping) :
        date \in {PeriodStart, None, Unparseable},
        state \in {"CA", "CALIFORNIA", "<NA>", "ZZ"},
        gross \in {None, 0, 1, Unparseable},
        has_tax \in BOOLEAN, tax \in {None, 0, 1},
        has_shipping \in BOOLEAN, shipping \in {None, 0, 1} }

NextRow == csv_calls < 1 /\ \E row \in RowInputs, db_fails \in BOOLEAN :
                                ProcessDataframe(<<row>>, db_fails)

SpecRow == InitCsv /\ [][NextRow]_vars

\* -------------------------------------------------- pipeline specification
\* One analysis: its file is normalized once, the nexus stage and the
\* liability stage are run and re-run in any order.
PipelineRow(state, amount, day, exempt, has_marketplace_column) ==
    [transaction_date |-> day, customer_state |-> state, gross_amount |-> amount,
     marketplace_name |-> IF has_marketplace_column THEN "<NA>" ELSE "<absent>",
     is_exempt |-> exempt]

\* the rows of a file, by whether the file has a marketplace_name column
PipelineRowKinds(has_marketplace_column) ==
    { PipelineRow("CA", SalesThreshold, PeriodEnd, FALSE, has_marketplace_column),
      PipelineRow("WY", SalesThreshold - 1, PeriodEnd, FALSE, has_marketplace_column),
      PipelineRow("<NA>", 1, PeriodEnd, FALSE, has_marketplace_column) }

PipelineBatches ==
    UNION { UNION { [1..n -> PipelineRowKinds(c)] : n \in 0..MaxRows } : c \in BOOLEAN }

PipelineRule(state, threshold_type, sales_threshold, transaction_threshold, exclude) ==
    [state_code |-> state, threshold_type |-> threshold_type,
     sales_threshold |-> sales_threshold, transaction_threshold |-> transaction_threshold,
     measurement_period |-> "ROLLING_12_MONTHS", exclude_marketplace_sales |-> exclude,
     registration_threshold_days |-> None]

\* the rule tables: a sales rule for CA and, for WY, an EITHER rule with both
\* thresholds or with no transaction threshold
PipelineRuleTables ==
    { <<PipelineRule("CA", "SALES_ONLY", SalesThreshold, None, TRUE),
        PipelineRule("WY", "EITHER", SalesThreshold, TransactionThreshold, FALSE)>>,
      <<PipelineRule("CA", "SALES_ONLY", SalesThreshold, None, FALSE),
        PipelineRule("WY", "EITHER", SalesThreshold, None, FALSE)>> }

PipelineProfiles ==
    { NoProfile,
      [has_physical_presence |-> TRUE, missing |-> FALSE,
       physical_locations |-> <<[state |-> "WY", established_date |-> PeriodStart,
                                 closed_date |-> None]>>] }

StateRate == 6
LocalRate == 1
PipelineTaxConfigs ==
    { <<[state_code |-> "CA", state_tax_rate |-> StateRate,
         avg_local_tax_rate |-> LocalRate, has_sales_tax |-> TRUE, missing |-> FALSE]>>,
      <<[state_code |-> "CA", state_tax_rate |-> StateRate,
         avg_local_tax_rate |-> LocalRate, has_sales_tax |-> TRUE, missing |-> FALSE],
        [state_code |-> "WY", state_tax_rate |-> StateRate,
         avg_local_tax_rate |-> 0, has_sales_tax |-> TRUE, missing |-> FALSE]>> }

\* a day before every registration deadline and a day after every one
PipelineToday == { PeriodEnd + 1, PeriodEnd + DEFAULT_REGISTRATION_DAYS + 1 }

Init ==
    /\ nexus_rules \in PipelineRuleTables
    /\ business_profile \in PipelineProfiles
    /\ today \in PipelineToday
    /\ tax_configs \in PipelineTaxConfigs
    /\ transactions = <<>>
    /\ nexus_results = <<>>
    /\ liability_estimates = <<>>
    /\ csv_result = [called |-> FALSE]
    /\ csv_batch = <<>>
    /\ csv_db_failed = FALSE
    /\ nexus_raised = FALSE
    /\ liability_raised = FALSE
    /\ liability_request = NoRequest
    /\ csv_calls = 0 /\ nexus_runs = 0 /\ liability_runs = 0
    /\ NoTasks /\ NoCallers

Next ==
    \/ csv_calls < 1 /\ \E df \in PipelineBatches, db_fails \in BOOLEAN :
           ProcessDataframe(df, db_fails)
    \/ nexus_runs < MaxRuns /\ DetermineNexus
    \/ liability_runs < MaxRuns
           /\ \E include_penalties \in BOOLEAN :
                  CalculateLiability(None, include_penalties, None)

Spec == Init /\ [][Next]_vars

\* ------------------------------------------ physical-nexus specification
\* One nexus run on an analysis without transactions, over the business
\* profiles of at most MaxLocations locations.
FirstDay == PeriodStart
ReferenceDays == { FirstDay + 1, FirstDay + 2 }
\* a location is established before, on or after a reference day, or has no
\* recorded date; it is closed on, before or after one, or still open
EstablishedDates == { None, FirstDay, FirstDay + 2 }
ClosedDates == { None, FirstDay + 1, FirstDay + 2 }
PhysicalLocations ==
    { [state |-> st, established_date |-> ed, closed_date |-> cd] :
        st \in States, ed \in EstablishedDates, cd \in ClosedDates }

PhysicalProfiles ==
    { NoProfile }
    \cup { [has_physical_presence |-> flag, missing |-> FALSE, physical_locations |-> locs] :
             flag \in BOOLEAN,
             locs \in UNION { [1..n -> PhysicalLocations] : n \in 0..MaxLocations } }

InitPhysical ==
    /\ nexus_rules = <<PipelineRule("CA", "SALES_ONLY", SalesThreshold, None, TRUE),
                       PipelineRule("WY", "EITHER", SalesThreshold, TransactionThreshold,
                                    FALSE)>>
    /\ business_profile \in PhysicalProfiles
    /\ today \in ReferenceDays
    /\ tax_configs = <<>>
    /\ transactions = <<>>
    /\ nexus_results = <<>>
    /\ liability_estimates = <<>>
    /\ csv_result = [called |-> FALSE]
    /\ csv_batch = <<>>
    /\ csv_db_failed = FALSE
    /\ nexus_raised = FALSE
    /\ liability_raised = FALSE
    /\ liability_request = NoRequest
    /\ csv_calls = 0 /\ nexus_runs = 0 /\ liability_runs = 0
    /\ NoTasks /\ NoCallers

NextPhysical == nexus_runs < 1 /\ DetermineNexus

SpecPhysical == InitPhysical /\ [][NextPhysical]_vars

\* ----------------------------------------------- liability specification
\* One nexus run and one liability run on an analysis whose CA transactions
\* and CA tax configuration vary; both states may have physical locations.
LiabilityDateSeq == <<PeriodEnd - DaysPerMonth, PeriodEnd>>
LiabilityAmountSeq == <<-1, SalesThreshold>>
LiabilityKindCount == Len(LiabilityDateSeq) * Len(LiabilityAmountSeq) * Len(FlagSeq)

\* the k-th kind of transaction of the liability specification
LiabilityKind(k) ==
    LET d == k % Len(LiabilityDateSeq)
        a == (k \div Len(LiabilityDateSeq)) % Len(LiabilityAmountSeq)
        f == k \div (Len(LiabilityDateSeq) * Len(LiabilityAmountSeq))
    IN  [transaction_date |-> LiabilityDateSeq[d + 1],
         gross_amount |-> LiabilityAmountSeq[a + 1],
         is_marketplace_sale |-> FlagSeq[f + 1].m, is_exempt_sale |-> FlagSeq[f + 1].e]

\* the tables of at most MaxTxns transactions of state "CA", one per multiset
\* of kinds
LiabilityTables ==
    UNION { { [i \in 1..n |-> [transaction_date |-> LiabilityKind(q[i]).transaction_date,
                               customer_state |-> "CA",
                               gross_amount |-> LiabilityKind(q[i]).gross_amount,
                               is_marketplace_sale |-> LiabilityKind(q[i]).is_marketplace_sale,
                               is_exempt_sale |-> LiabilityKind(q[i]).is_exempt_sale,
                               original_row_number |-> i + 1]] :
                q \in { t \in [1..n -> 0..(LiabilityKindCount - 1)] :
                          \A i \in 1..n : i < n => t[i] <= t[i + 1] } } :
            n \in 0..MaxTxns }

TaxConfig(state, state_rate, local_rate, has_sales_tax) ==
    [state_code |-> state, state_tax_rate |-> state_rate, avg_local_tax_rate |-> local_rate,
     has_sales_tax |-> has_sales_tax, missing |-> FALSE]

\* WY always has a usable configuration; CA has none, a usable one (with or
\* without local rate, with or without state rate) or one without sales tax
LiabilityTaxConfigs ==
    { <<TaxConfig("WY", StateRate, 0, TRUE)>> }
    \cup { <<TaxConfig("CA", sr, lr, hs), TaxConfig("WY", StateRate, 0, TRUE)>> :
             sr \in {0, StateRate}, lr \in {0, LocalRate}, hs \in BOOLEAN }

LiabilityProfiles ==
    { NoProfile,
      [has_physical_presence |-> TRUE, missing |-> FALSE,
       physical_locations |-> <<[state |-> "CA", established_date |-> PeriodStart,
                                 closed_date |-> None],
                                [state |-> "WY", established_date |-> None,
                                 closed_date |-> None]>>] }

InitLiability ==
    /\ nexus_rules = <<PipelineRule("CA", "SALES_ONLY", SalesThreshold, None, FALSE),
                       PipelineRule("WY", "EITHER", SalesThreshold, TransactionThreshold,
                                    FALSE)>>
    /\ business_profile \in LiabilityProfiles
    /\ today \in PipelineToday
    /\ tax_configs \in LiabilityTaxConfigs
    /\ transactions \in LiabilityTables
    /\ nexus_results = <<>>
    /\ liability_estimates = <<>>
    /\ csv_result = [called |-> FALSE]
    /\ csv_batch = <<>>
    /\ csv_db_failed = FALSE
    /\ nexus_raised = FALSE
    /\ liability_raised = FALSE
    /\ liability_request = NoRequest
    /\ csv_calls = 0 /\ nexus_runs = 0 /\ liability_runs = 0
    /\ NoTasks /\ NoCallers

NextLiability ==
    \/ nexus_runs < 1 /\ DetermineNexus
    \/ liability_runs < 1
           /\ \E exemption_rate \in {None, 0}, include_penalties \in BOOLEAN,
                 custom_lookback_months \in {None, 0, 1} :
                  CalculateLiability(exemption_rate, include_penalties,
                                     custom_lookback_months)

SpecLiability == InitLiability /\ [][NextLiability]_vars

\* ------------------------------------------------------- risk assessment
\* The risk assessment of calculate_liability for one nexus result, given the
\* values computed before it: liability_request holds the mid estimate, the
\* status and confidence of the nexus result and the penalty amount, and the
\* assessed estimate is appended to liability_estimates.
\* faulty variant of HasPenalties: a penalty of zero counts as a penalty
HasPenalties_mut(penalty_amount) == penalty_amount # None

\* bool(penalty_amount): None and a zero amount are falsy
HasPenalties(penalty_amount) == penalty_amount \notin {None, 0}

\* mid estimates (in 1/20000 units) below, at and above the two amounts
\* _assess_risk compares with
RiskAmounts ==
    { -1, 0, 10000 * EstimateScale, 10000 * EstimateScale + 1,
      50000 * EstimateScale, 50000 * EstimateScale + 1 }

RiskCalls ==
    [state : {"CA"}, mid_estimate : RiskAmounts,
     nexus_status : {"NEXUS_PHYSICAL", "NEXUS_ECONOMIC", "CLOSE_TO_THRESHOLD", "NO_NEXUS"},
     confidence_level : {"LOW", "MEDIUM", "HIGH"},
     penalty_amount : {None, 0, 1}]

\* the call of _assess_risk in calculate_liability
AssessRisk ==
    /\ liability_estimates' =
           Append(liability_estimates,
                  [state |-> liability_request.state,
                   nexus_status |-> liability_request.nexus_status,
                   confidence_level |-> liability_request.confidence_level,
                   estimated_liability_mid |-> liability_request.mid_estimate,
                   penalty_amount |-> liability_request.penalty_amount,
                   risk_level |-> assess_risk(liability_request.state,
                                              liability_request.mid_estimate,
                                              liability_request.nexus_status,
                                              liability_request.confidence_level,
                                              HasPenalties(liability_request.penalty_amount))])
    /\ liability_runs' = liability_runs + 1
    /\ UNCHANGED <<nexus_rules, business_profile, today, tax_configs, transactions,
                   nexus_results, csv_result, csv_batch, csv_db_failed, nexus_raised,
                   liability_raised, liability_request, csv_calls, nexus_runs, taskVars,
                   sharedVars>>

InitRisk ==
    /\ nexus_rules = <<>>
    /\ business_profile = NoProfile
    /\ today = PeriodEnd + 1
    /\ tax_configs = <<>>
    /\ transactions = <<>>
    /\ nexus_results = <<>>
    /\ liability_estimates = <<>>
    /\ csv_result = [called |-> FALSE]
    /\ csv_batch = <<>>
    /\ csv_db_failed = FALSE
    /\ nexus_raised = FALSE
    /\ liability_raised = FALSE
    /\ liability_request \in RiskCalls
    /\ csv_calls = 0 /\ nexus_runs = 0 /\ liability_runs = 0
    /\ NoTasks /\ NoCallers

NextRisk == liability_runs < 1 /\ AssessRisk

SpecRisk == InitRisk /\ [][NextRisk]_vars

\* ------------------------------------------------------------- task layer
\* The API endpoints that enqueue the stage tasks and the Celery tasks of
\* workers/tasks.py; a task run is one step.
MaxRequests == 3      \* requests the endpoints accept for the analysis

MAX_RETRIES == 3

\* the requests accepted so far
RequestCount == api_requests.upload + api_requests.nexus + api_requests.liability

\* reference data, which no task writes
refVars == <<nexus_rules, business_profile, today, tax_configs>>

\* a task message: the task name, request.retries and the task's arguments
Message(task, id, include_penalties) ==
    [task |-> task, id |-> id, retries |-> 0, include_penalties |-> include_penalties]

\* self.retry(exc=e, countdown=60): the message is queued again while
\* request.retries is below max_retries, otherwise the exception is re-raised
RetryPending(msg) == msg.retries < MAX_RETRIES

\* the queue after the run of msg, which ended in self.retry if raised
QueueAfter(msg, raised) ==
    (task_queue \ {msg}) \cup
        (IF raised /\ RetryPending(msg) THEN {[msg EXCEPT !.retries = @ + 1]} ELSE {})

\* the record of the run of msg
RunRecord(msg, raised, rows_committed) ==
    [task |-> msg.task, retries |-> msg.retries, raised |-> raised,
     rows_committed |-> rows_committed, retry_pending |-> raised /\ RetryPending(msg)]

\* ORDER BY transaction_date when rows of equal date are copies of one row:
\* every order the database may choose is this sequence
OrderByDate(txns) ==
    LET n == Len(txns)
        Before(j, i) ==
            \/ txns[j].transaction_date < txns[i].transaction_date
            \/ txns[j].transaction_date = txns[i].transaction_date /\ j < i
    IN  [k \in 1..n |->
            txns[CHOOSE i \in 1..n :
                     Cardinality({ j \in 1..n : Before(j, i) }) = k - 1]]

\* upload_csv_to_analysis (api/analyses.py): the analysis must be PENDING; the file is
\* stored and the CSV task queued, or the store fails and the analysis is FAILED
UploadCsv(df, s3_fails) ==
    /\ RequestCount < MaxRequests
    /\ analysis.status = "PENDING"
    /\ IF s3_fails
       THEN /\ analysis' = [status |-> "FAILED", error_message |-> "Failed to upload file"]
            /\ UNCHANGED <<s3_file, task_queue>>
       ELSE /\ s3_file' = df
            /\ analysis' = [analysis EXCEPT !.status = "PENDING"]
            /\ task_queue' = task_queue \cup
                   {Message("process_csv_file", api_requests.upload + 1, FALSE)}
    /\ api_requests' = [api_requests EXCEPT !.upload = @ + 1]
    /\ UNCHANGED <<refVars, transactions, nexus_results, liability_estimates, csv_result,
                   csv_batch, csv_db_failed, nexus_raised, liability_raised,
                   liability_request, csv_calls, nexus_runs, liability_runs, last_run,
                   sharedVars>>

\* what may fail in a run of process_csv_file: the download of the file, the
\* bulk insert, the upload of the validation report
CsvFailures == {"none", "download", "insert", "report"}

\* process_csv_file: one run of the task on message msg
ProcessCsvFileTask(msg, failure) ==
    /\ msg \in task_queue /\ msg.task = "process_csv_file"
    /\ \E out \in {process_dataframe(s3_file, failure = "insert")} :
       LET downloaded == failure # "download"
           succeeded == downloaded /\ out.result.success
           persisted == IF downloaded THEN out.persisted ELSE <<>>
           \* an exception reaches the handler: the download raised, or the
           \* upload of the validation report raised after the insert
           raised == \/ ~downloaded
                     \/ /\ succeeded /\ out.result.validation_errors # <<>>
                        /\ failure = "report"
       IN  /\ transactions' = transactions \o persisted
           /\ csv_result' = IF downloaded THEN out.result ELSE csv_result
           /\ csv_batch' = IF downloaded THEN s3_file ELSE csv_batch
           /\ csv_db_failed' = IF downloaded THEN failure = "insert" ELSE csv_db_failed
           /\ csv_calls' = IF downloaded THEN csv_calls + 1 ELSE csv_calls
           /\ analysis' =
                  IF raised
                  THEN [status |-> "FAILED", error_message |-> "Processing error"]
                  ELSE IF succeeded
                  THEN [analysis EXCEPT !.status = "PROCESSING_NEXUS"]
                  ELSE [status |-> "FAILED", error_message |-> out.result.error]
           /\ task_queue' = QueueAfter(msg, raised)
           /\ last_run' = RunRecord(msg, raised, Len(persisted))
    /\ UNCHANGED <<refVars, nexus_results, liability_estimates, nexus_raised,
                   liability_raised, liability_request, nexus_runs, liability_runs,
                   s3_file, api_requests, sharedVars>>

\* trigger_nexus_determination (api/nexus_rules.py): the task is queued when
\* the analysis has at least one transaction
TriggerNexusDetermination ==
    /\ RequestCount < MaxRequests
    /\ Len(transactions) > 0
    /\ task_queue' = task_queue \cup
           {Message("run_nexus_determination", api_requests.nexus + 1, FALSE)}
    /\ api_requests' = [api_requests EXCEPT !.nexus = @ + 1]
    /\ UNCHANGED <<refVars, transactions, nexus_results, liability_estimates, csv_result,
                   csv_batch, csv_db_failed, nexus_raised, liability_raised,
                   liability_request, csv_calls, nexus_runs, liability_runs, analysis,
                   s3_file, last_run, sharedVars>>

\* analysis.completed_at = func.now(): tasks.py never imports func, so the
\* statement raises NameError
FuncNowRaises == TRUE

\* run_nexus_determination: one run of the task on message msg. The engine adds
\* a NexusResult to the session per rule and commits after the loop; when a
\* rule raises, or when func.now() raises after the engine's commit, the
\* handler sets FAILED and commits on the same session, which also writes the
\* rows the session still holds.
RunNexusDeterminationTask(msg) ==
    /\ msg \in task_queue /\ msg.task = "run_nexus_determination"
    /\ \E results \in {DetermineNexusResults(transactions, OrderByDate(transactions),
                                              business_profile, nexus_rules, today,
                                              PeriodEnd)} :
       LET raising == { i \in 1..Len(results) : results[i].raised }
           engine_raised == raising # {}
           added == IF engine_raised
                    THEN SubSeq(results, 1,
                                (CHOOSE i \in raising : \A j \in raising : i <= j) - 1)
                    ELSE results
           raised == engine_raised \/ FuncNowRaises
       IN  /\ nexus_results' = nexus_results \o added
           /\ nexus_raised' = engine_raised
           /\ analysis' =
                  IF raised
                  THEN [status |-> "FAILED",
                        error_message |-> "Nexus determination error"]
                  ELSE [analysis EXCEPT !.status = "COMPLETED"]
           /\ task_queue' = QueueAfter(msg, raised)
           /\ last_run' = RunRecord(msg, raised, Len(added))
    /\ nexus_runs' = nexus_runs + 1
    /\ UNCHANGED <<refVars, transactions, liability_estimates, csv_result, csv_batch,
                   csv_db_failed, liability_raised, liability_request, csv_calls,
                   liability_runs, s3_file, api_requests, sharedVars>>

\* trigger_liability_calculation and recalculate_liability (api/liability.py):
\* the task is queued when the analysis has a NexusResult with a nexus status
TriggerLiabilityCalculation(include_penalties) ==
    /\ RequestCount < MaxRequests
    /\ \E i \in 1..Len(nexus_results) : NexusStatusFilter(nexus_results[i])
    /\ task_queue' = task_queue \cup
           {Message("calculate_liability", api_requests.liability + 1, include_penalties)}
    /\ api_requests' = [api_requests EXCEPT !.liability = @ + 1]
    /\ UNCHANGED <<refVars, transactions, nexus_results, liability_estimates, csv_result,
                   csv_batch, csv_db_failed, nexus_raised, liability_raised,
                   liability_request, csv_calls, nexus_runs, liability_runs, analysis,
                   s3_file, last_run, sharedVars>>

\* calculate_liability (the task): one run on message msg. When the engine
\* raises, the handler only retries and the session is closed without a commit;
\* the analysis row is never written.
CalculateLiabilityTask(msg) ==
    /\ msg \in task_queue /\ msg.task = "calculate_liability"
    /\ \E estimates \in {CalculateLiabilityEstimates(transactions, tax_configs,
                                                     nexus_results, today,
                                                     DEFAULT_EXEMPTION_RATE,
                                                     msg.include_penalties, None)} :
       LET raised == \E i \in 1..Len(estimates) : estimates[i].raised
       IN  /\ liability_estimates' =
                  IF raised THEN liability_estimates ELSE liability_estimates \o estimates
           /\ liability_raised' = raised
           /\ task_queue' = QueueAfter(msg, raised)
           /\ last_run' = RunRecord(msg, raised, IF raised THEN 0 ELSE Len(estimates))
    /\ liability_request' = [exemption_rate |-> None,
                             include_penalties |-> msg.include_penalties,
                             custom_lookback_months |-> None]
    /\ liability_runs' = liability_runs + 1
    /\ UNCHANGED <<refVars, transactions, nexus_results, csv_result, csv_batch,
                   csv_db_failed, nexus_raised, csv_calls, nexus_runs, analysis,
                   s3_file, api_requests, sharedVars>>

\* ------------------------------------------------ task specification inputs
\* rows dated day by day, so that no two rows of a file share a date
TaskRow(state, day) == PipelineRow(state, SalesThreshold, day, FALSE, FALSE)

\* a clean file, and a file of four valid rows and one invalid row (accepted,
\* with a validation report)
TaskFiles ==
    { <<TaskRow("CA", PeriodStart)>>,
      <<TaskRow("CA", PeriodStart), TaskRow("WY", PeriodStart + 1),
        TaskRow("WY", PeriodStart + 2), TaskRow("WY", PeriodStart + 3),
        TaskRow("<NA>", PeriodStart + 4)>> }

\* the rule tables: a sales rule for CA alone, or followed by an EITHER rule
\* for WY that has no transaction threshold
TaskRuleTables ==
    { <<PipelineRule("CA", "SALES_ONLY", SalesThreshold, None, FALSE)>>,
      <<PipelineRule("CA", "SALES_ONLY", SalesThreshold, None, FALSE),
        PipelineRule("WY", "EITHER", SalesThreshold, None, FALSE)>> }

\* the business profile: one location in CA
TaskProfile ==
    [has_physical_presence |-> TRUE, missing |-> FALSE,
     physical_locations |-> <<[state |-> "CA", established_date |-> PeriodStart,
                               closed_date |-> None]>>]

InitTasks ==
    /\ nexus_rules \in TaskRuleTables
    /\ business_profile = TaskProfile
    /\ today \in PipelineToday
    /\ tax_configs \in { c \in PipelineTaxConfigs : Len(c) = 2 }
    /\ transactions = <<>>
    /\ nexus_results = <<>>
    /\ liability_estimates = <<>>
    /\ csv_result = [called |-> FALSE]
    /\ csv_batch = <<>>
    /\ csv_db_failed = FALSE
    /\ nexus_raised = FALSE
    /\ liability_raised = FALSE
    /\ liability_request = NoRequest
    /\ csv_calls = 0 /\ nexus_runs = 0 /\ liability_runs = 0
    /\ NoTasks /\ NoCallers

NextTasks ==
    \/ \E df \in TaskFiles, s3_fails \in BOOLEAN : UploadCsv(df, s3_fails)
    \/ \E msg \in task_queue, failure \in CsvFailures : ProcessCsvFileTask(msg, failure)
    \/ TriggerNexusDetermination
    \/ \E msg \in task_queue : RunNexusDeterminationTask(msg)
    \/ \E include_penalties \in BOOLEAN : TriggerLiabilityCalculation(include_penalties)
    \/ \E msg \in task_queue : CalculateLiabilityTask(msg)

SpecTasks == InitTasks /\ [][NextTasks]_vars

\* --------------------------------------------------------- the CSV stage
\* The upload endpoint and the CSV task alone, on files of every quality.
\* the files: those of the task layer, and the files of up to MaxRows rows,
\* n[1] valid rows followed by n[2] rows with an unknown state
CsvTaskFiles ==
    TaskFiles \cup
    { [i \in 1..(n[1] + n[2]) |->
          IF i <= n[1] THEN TaskRow("CA", PeriodStart) ELSE TaskRow("<NA>", PeriodStart)] :
        n \in { m \in (0..MaxRows) \X (0..MaxRows) : 1 <= m[1] + m[2] /\ m[1] + m[2] <= MaxRows } }

\* the reference data is one of the task layer's choices: the CSV stage reads none of it
InitCsvTask ==
    /\ InitTasks
    /\ Len(nexus_rules) = 1
    /\ today = PeriodEnd + 1

NextCsvTask ==
    \/ \E df \in CsvTaskFiles, s3_fails \in BOOLEAN : UploadCsv(df, s3_fails)
    \/ \E msg \in task_queue, failure \in CsvFailures : ProcessCsvFileTask(msg, failure)

SpecCsvTask == InitCsvTask /\ [][NextCsvTask]_vars

\* ------------------------------------------------------- shared processor
\* Two calls of csv_processor.process_dataframe, for two analyses, running in
\* one process: both work on the attributes of the one module-level
\* CSVProcessor. A step is the reset, one pass of the row loop, or the part
\* after the loop.
Callers == {1, 2}

\* a call that has not started
IdleCaller == [pc |-> "idle", df |-> <<>>, idx |-> 0, valid_transactions |-> <<>>,
               db_fails |-> FALSE, persisted |-> <<>>, result |-> [called |-> FALSE]]

\* the batches of the two calls
SharedBatches == UNION { [1..n -> CsvRowKinds] : n \in 1..MaxRows }

\* process_dataframe up to the loop: the counters and the error list of the
\* instance are reset, valid_transactions is a local list
BeginProcessDataframe(c, df) ==
    /\ callers[c].pc = "idle"
    /\ csv_processor' = [validation_errors |-> <<>>, valid_row_count |-> 0,
                         invalid_row_count |-> 0]
    /\ callers' = [callers EXCEPT ![c] = [IdleCaller EXCEPT !.pc = "loop", !.df = df,
                                                            !.idx = 1]]
    /\ UNCHANGED <<refVars, transactions, nexus_results, liability_estimates, csv_result,
                   csv_batch, csv_db_failed, nexus_raised, liability_raised,
                   liability_request, csv_calls, nexus_runs, liability_runs, taskVars>>

\* one pass of the row loop of call c
ValidateNextRow(c) ==
    /\ callers[c].pc = "loop" /\ callers[c].idx <= Len(callers[c].df)
    /\ \E o \in {validate_row(callers[c].df[callers[c].idx], callers[c].idx + 1)} :
         IF o.is_valid
         THEN /\ csv_processor' = [csv_processor EXCEPT !.valid_row_count = @ + 1]
              /\ callers' = [callers EXCEPT ![c].idx = @ + 1,
                                            ![c].valid_transactions = Append(@, o.result)]
         ELSE /\ csv_processor' =
                     [csv_processor EXCEPT !.invalid_row_count = @ + 1,
                                           !.validation_errors = Append(@, o.result)]
              /\ callers' = [callers EXCEPT ![c].idx = @ + 1]
    /\ UNCHANGED <<refVars, transactions, nexus_results, liability_estimates, csv_result,
                   csv_batch, csv_db_failed, nexus_raised, liability_raised,
                   liability_request, csv_calls, nexus_runs, liability_runs, taskVars>>

\* process_dataframe after the loop: the quality gate, the bulk insert and the
\* returned dictionary, all read from the attributes of the instance
FinishProcessDataframe(c, db_fails) ==
    /\ callers[c].pc = "loop" /\ callers[c].idx > Len(callers[c].df)
    /\ LET total_rows == Len(callers[c].df)
           errors == csv_processor.validation_errors
           capped == SubSeq(errors, 1, IF Len(errors) < 100 THEN Len(errors) ELSE 100)
           below == QualityGateRejects(csv_processor.valid_row_count, total_rows)
           counts == [called |-> TRUE, valid_rows |-> csv_processor.valid_row_count,
                      invalid_rows |-> csv_processor.invalid_row_count]
       IN  callers' =
               [callers EXCEPT
                  ![c].pc = "done",
                  ![c].db_fails = db_fails,
                  ![c].persisted = IF below \/ db_fails THEN <<>>
                                   ELSE callers[c].valid_transactions,
                  ![c].result =
                      IF below
                      THEN [called |-> TRUE, success |-> FALSE,
                            error |-> QualityError(counts.valid_rows, total_rows),
                            valid_rows |-> counts.valid_rows,
                            invalid_rows |-> counts.invalid_rows,
                            total_rows |-> total_rows, validation_errors |-> capped]
                      ELSE IF db_fails
                      THEN [called |-> TRUE, success |-> FALSE,
                            error |-> "Database error",
                            valid_rows |-> counts.valid_rows,
                            invalid_rows |-> counts.invalid_rows,
                            total_rows |-> None, validation_errors |-> <<>>]
                      ELSE [called |-> TRUE, success |-> TRUE, error |-> "",
                            valid_rows |-> counts.valid_rows,
                            invalid_rows |-> counts.invalid_rows,
                            total_rows |-> total_rows, validation_errors |-> capped]]
    /\ UNCHANGED <<refVars, transactions, nexus_results, liability_estimates, csv_result,
                   csv_batch, csv_db_failed, nexus_raised, liability_raised,
                   liability_request, csv_calls, nexus_runs, liability_runs, taskVars,
                   csv_processor>>

InitShared ==
    /\ nexus_rules = <<>>
    /\ business_profile = NoProfile
    /\ today = PeriodEnd
    /\ tax_configs = <<>>
    /\ transactions = <<>>
    /\ nexus_results = <<>>
    /\ liability_estimates = <<>>
    /\ csv_result = [called |-> FALSE]
    /\ csv_batch = <<>>
    /\ csv_db_failed = FALSE
    /\ nexus_raised = FALSE
    /\ liability_raised = FALSE
    /\ liability_request = NoRequest
    /\ csv_calls = 0 /\ nexus_runs = 0 /\ liability_runs = 0
    /\ NoTasks
    /\ csv_processor = [validation_errors |-> <<>>, valid_row_count |-> 0,
                        invalid_row_count |-> 0]
    /\ callers = [c \in Callers |-> IdleCaller]

NextShared ==
    \/ \E c \in Callers, df \in SharedBatches : BeginProcessDataframe(c, df)
    \/ \E c \in Callers : ValidateNextRow(c)
    \/ \E c \in Callers, db_fails \in BOOLEAN : FinishProcessDataframe(c, db_fails)

SpecShared == InitShared /\ [][NextShared]_vars

\* --------------------------------------------------- properties: normalizer
\* the rows of a batch that validate_row accepts
ValidRowNumbers(df) == { i + 1 : i \in { j \in 1..Len(df) : validate_row(df[j], j + 1).is_valid } }

\* the transactions a step appends to the table
Appended == SubSeq(transactions', Len(transactions) + 1, Len(transactions'))

\* C2: a call of process_dataframe whose batch the quality gate rejects persists
\* no Transaction; a call that accepts its batch persists exactly one
\* Transaction per valid row, as many as the reported valid_rows, and none for
\* an invalid row.
C2_PersistExactlyValidRows ==
    [][csv_calls' = csv_calls + 1 =>
          /\ SubSeq(transactions', 1, Len(transactions)) = transactions
          /\ 100 * Cardinality(ValidRowNumbers(csv_batch')) < 80 * Len(csv_batch')
                 => transactions' = transactions
          /\ csv_result'.success =>
                 /\ Len(Appended) = csv_result'.valid_rows
                 /\ \A n \in 2..(Len(csv_batch') + 1) :
                        Cardinality({ k \in 1..Len(Appended) :
                                        Appended[k].original_row_number = n })
                            = IF n \in ValidRowNumbers(csv_batch') THEN 1 ELSE 0]_vars

\* C2 witness: an accepted batch that has an invalid row
C2_Witness ==
    /\ csv_result.called /\ csv_result.success
    /\ csv_result.invalid_rows > 0
    /\ Len(transactions) = csv_result.valid_rows

RECURSIVE SumOver(_, _)
\* the sum of amount[i] over the indices i of the set idxs
SumOver(idxs, amount) ==
    IF idxs = {} THEN 0
    ELSE LET i == CHOOSE j \in idxs : TRUE
         IN  amount[i] + SumOver(idxs \ {i}, amount)

\* the rule a stored NexusResult was computed from
RuleOf(r) == CHOOSE q \in { nexus_rules[i] : i \in 1..Len(nexus_rules) } :
                 q.state_code = r.state

\* indices of the stored transactions of r's state inside r's measurement window
WindowIdx(r) ==
    LET period == calculate_measurement_period(r.measurement_period, PeriodEnd)
    IN  { i \in 1..Len(transactions) :
            /\ transactions[i].customer_state = r.state
            /\ period.start <= transactions[i].transaction_date
            /\ transactions[i].transaction_date <= period.end }

\* a transaction counts toward the sales threshold of the rule
CountsTowardThreshold(txn, rule) ==
    /\ ~txn.is_exempt_sale
    /\ ~(txn.is_marketplace_sale /\ rule.exclude_marketplace_sales)

Results == { nexus_results[i] : i \in 1..Len(nexus_results) }

\* C5: with both thresholds configured the economic-nexus decision follows the
\* rule's policy: SALES_ONLY iff taxable_sales >= sales_threshold,
\* TRANSACTIONS_ONLY iff transaction_count >= transaction_threshold, EITHER iff
\* at least one of the two holds, BOTH iff both hold.
C5_PolicyDecision ==
    \A r \in Results :
        (r.sales_threshold # None /\ r.transaction_threshold # None) =>
            LET sales_met == r.taxable_sales >= r.sales_threshold
                count_met == r.transaction_count >= r.transaction_threshold
            IN  /\ r.threshold_type = "SALES_ONLY" => (r.economic_nexus <=> sales_met)
                /\ r.threshold_type = "TRANSACTIONS_ONLY" => (r.economic_nexus <=> count_met)
                /\ r.threshold_type = "EITHER" => (r.economic_nexus <=> (sales_met \/ count_met))
                /\ r.threshold_type = "BOTH" => (r.economic_nexus <=> (sales_met /\ count_met))

\* C5 witness: an EITHER rule with both thresholds, sales at or over the sales
\* threshold and fewer transactions than the transaction threshold: nexus
C5_Witness ==
    \E r \in Results :
        /\ r.threshold_type = "EITHER"
        /\ r.sales_threshold # None /\ r.transaction_threshold # None
        /\ r.taxable_sales >= r.sales_threshold
        /\ r.transaction_count < r.transaction_threshold
        /\ r.economic_nexus

\* C6: over the state's transactions inside the window, total_sales is the sum
\* of all gross amounts, transaction_count counts every transaction, and
\* taxable_sales is the sum over the transactions that are not exempt and not
\* excluded marketplace sales; under SALES_ONLY nexus is decided on that sum.
C6_WindowTotals ==
    \A r \in Results :
        LET rule == RuleOf(r)
            gross == [i \in 1..Len(transactions) |-> transactions[i].gross_amount]
            taxable == { i \in WindowIdx(r) : CountsTowardThreshold(transactions[i], rule) }
        IN  /\ r.total_sales = SumOver(WindowIdx(r), gross)
            /\ r.transaction_count = Cardinality(WindowIdx(r))
            /\ r.taxable_sales = SumOver(taxable, gross)
            /\ r.threshold_type = "SALES_ONLY" =>
                   (r.economic_nexus <=> SumOver(taxable, gross) >= r.sales_threshold)

\* C6 witness: excluded marketplace sales lift total_sales to the threshold
\* while taxable_sales stays below it, and no nexus is found
C6_Witness ==
    \E r \in Results :
        /\ r.threshold_type = "SALES_ONLY"
        /\ RuleOf(r).exclude_marketplace_sales
        /\ \E i \in WindowIdx(r) : transactions[i].is_marketplace_sale
        /\ r.total_sales >= r.sales_threshold
        /\ r.taxable_sales < r.sales_threshold
        /\ r.transaction_count >= 2
        /\ ~r.economic_nexus

\* C7: without physical nexus and under SALES_ONLY with threshold T > 0 the
\* status is NEXUS_ECONOMIC when taxable_sales >= T, CLOSE_TO_THRESHOLD when
\* 0.8*T <= taxable_sales < T, and NO_NEXUS when taxable_sales < 0.8*T.
C7_SalesOnlyStatus ==
    \A r \in Results :
        (r.threshold_type = "SALES_ONLY" /\ ~r.physical_nexus /\ r.sales_threshold > 0) =>
            r.nexus_status =
                IF r.taxable_sales >= r.sales_threshold THEN "NEXUS_ECONOMIC"
                ELSE IF 10 * r.taxable_sales >= 8 * r.sales_threshold THEN "CLOSE_TO_THRESHOLD"
                ELSE "NO_NEXUS"

\* C7 witness: taxable sales one unit below the threshold give CLOSE_TO_THRESHOLD
C7_Witness ==
    \E r \in Results :
        /\ r.threshold_type = "SALES_ONLY" /\ ~r.physical_nexus
        /\ r.taxable_sales = r.sales_threshold - 1
        /\ r.nexus_status = "CLOSE_TO_THRESHOLD"

\* C8: under EITHER with exactly one threshold configured the evaluation
\* completes without error and reports nexus iff the condition on the
\* configured threshold holds.
C8_EitherSkipsNullThreshold ==
    \A k \in 1..Len(nexus_rules) :
        LET rule == nexus_rules[k]
        IN  (/\ nexus_runs > 0
             /\ rule.threshold_type = "EITHER"
             /\ (rule.sales_threshold = None) # (rule.transaction_threshold = None)) =>
                /\ ~nexus_raised
                /\ \E r \in Results :
                     /\ r.state = rule.state_code
                     /\ r.economic_nexus <=>
                            IF rule.sales_threshold # None
                            THEN r.taxable_sales >= rule.sales_threshold
                            ELSE r.transaction_count >= rule.transaction_threshold

\* the running totals of the date scan after the first k transactions of ordered
RunningSales(ordered, k, rule) ==
    SumOver({ i \in 1..k : CountsTowardThreshold(ordered[i], rule) },
            [i \in 1..Len(ordered) |-> ordered[i].gross_amount])

\* the rule's threshold condition on the first k transactions of ordered
ConditionAt(ordered, k, rule) ==
    LET sales_met == RunningSales(ordered, k, rule) >= rule.sales_threshold
        count_met == k >= rule.transaction_threshold
    IN  CASE rule.threshold_type = "SALES_ONLY" -> sales_met
          [] rule.threshold_type = "TRANSACTIONS_ONLY" -> count_met
          [] rule.threshold_type = "EITHER" -> sales_met \/ count_met
          [] rule.threshold_type = "BOTH" -> sales_met /\ count_met

C10_CloseOnlyWithoutNexus ==
    \A r \in Results : r.close_to_threshold => ~r.economic_nexus

\* ---------------------------------------------------- properties: pipeline
Estimates == { liability_estimates[i] : i \in 1..Len(liability_estimates) }

C4_AtMostOneRowPerState ==
    /\ \A i, j \in 1..Len(nexus_results) :
           nexus_results[i].state = nexus_results[j].state => i = j
    /\ \A i, j \in 1..Len(liability_estimates) :
           liability_estimates[i].state = liability_estimates[j].state => i = j

\* ----------------------------------------------- properties: physical nexus
\* the locations of the business profile in a state
LocationsIn(state) ==
    IF business_profile.missing THEN {}
    ELSE { business_profile.physical_locations[i] :
             i \in { j \in 1..Len(business_profile.physical_locations) :
                       business_profile.physical_locations[j].state = state } }

\* C11 as stated: a state is reported as physical nexus iff the profile has a
\* location in it with established_date <= as_of_date and closed_date null or
\* after as_of_date.
C11_PhysicalIffActiveLocation ==
    \A r \in Results :
        r.physical_nexus <=>
            \E location \in LocationsIn(r.state) :
                /\ location.established_date # None
                /\ location.established_date <= today
                /\ (location.closed_date = None \/ location.closed_date > today)

\* C11 amended: a state is reported as physical nexus iff the profile declares
\* physical presence and has a location in the state whose established_date
\* is null or <= as_of_date and whose closed_date is null or > as_of_date; the
\* state's status is then NEXUS_PHYSICAL.
C11_PhysicalIffDeclaredAndActive ==
    \A r \in Results :
        /\ r.physical_nexus <=>
               /\ business_profile.has_physical_presence
               /\ \E location \in LocationsIn(r.state) :
                     /\ (location.established_date = None
                         \/ location.established_date <= today)
                     /\ (location.closed_date = None \/ location.closed_date > today)
        /\ r.physical_nexus <=> r.nexus_status = "NEXUS_PHYSICAL"

\* C11 witness: CA is reported through a location established on the
\* reference day, WY is not reported although it has a location, closed on the
\* reference day
C11_Witness ==
    /\ \E r \in Results : r.state = "CA" /\ r.physical_nexus
    /\ \E location \in LocationsIn("CA") :
           location.established_date = today /\ location.closed_date = None
    /\ \E r \in Results : r.state = "WY" /\ ~r.physical_nexus
    /\ \E location \in LocationsIn("WY") : location.closed_date = today

\* --------------------------------------------------- properties: liability
\* C12: for every estimate with taxable base > 0 (rates are non-negative),
\* low <= mid <= high with low = taxable * state_rate, mid = taxable *
\* (state_rate + half the local rate), high = taxable * (state_rate + local
\* rate), and the three are equal iff the average local rate is 0.
C12_EstimatesOrdered ==
    \A e \in Estimates :
        e.taxable_sales > 0 =>
            LET local_rate == IF e.avg_local_tax_rate = None THEN 0
                              ELSE e.avg_local_tax_rate
            IN  /\ e.estimated_liability_low <= e.estimated_liability_mid
                /\ e.estimated_liability_mid <= e.estimated_liability_high
                /\ (/\ e.estimated_liability_low = e.estimated_liability_mid
                    /\ e.estimated_liability_mid = e.estimated_liability_high)
                       <=> local_rate = 0
                /\ e.estimated_liability_low = e.taxable_sales * 2 * e.state_tax_rate
                /\ 2 * e.estimated_liability_mid
                       = e.taxable_sales * 2 * (2 * e.state_tax_rate + local_rate)
                /\ e.estimated_liability_high
                       = e.taxable_sales * 2 * (e.state_tax_rate + local_rate)

\* C12 witness: an estimate on a positive taxable base with a local rate, its
\* three estimates strictly increasing, next to one without local rate
C12_Witness ==
    /\ \E e \in Estimates :
           /\ e.taxable_sales > 0 /\ e.avg_local_tax_rate # None
           /\ e.estimated_liability_low < e.estimated_liability_mid
           /\ e.estimated_liability_mid < e.estimated_liability_high
    /\ \E tc \in { tax_configs[i] : i \in 1..Len(tax_configs) } :
           tc.state_code = "CA" /\ tc.state_tax_rate > 0

\* the ids of the NexusResult rows a liability run builds an estimate from
EligibleIds ==
    { i \in 1..Len(nexus_results) :
        /\ NexusStatusFilter(nexus_results[i])
        /\ ~TaxConfigOf(tax_configs, nexus_results[i].state).missing
        /\ TaxConfigOf(tax_configs, nexus_results[i].state).has_sales_tax }

\* the positions of the estimates a step appends
AppendedEstimates == (Len(liability_estimates) + 1)..Len(liability_estimates')

\* C13: a liability run gives every result whose registration deadline has
\* passed, when include_penalties is requested, an estimate with a non-zero
\* penalty and a non-zero interest; with a later deadline, no deadline or
\* include_penalties = false, penalty, interest and total-with-penalties are
\* null or zero.
C13_PenaltiesOnlyWhenLate ==
    [][liability_runs' = liability_runs + 1 =>
          \A id \in EligibleIds :
              \E k \in AppendedEstimates :
                  LET e == liability_estimates'[k]
                      deadline == nexus_results[id].registration_deadline
                  IN  /\ e.nexus_result_id = id
                      /\ IF /\ liability_request'.include_penalties
                            /\ deadline # None /\ today > deadline
                         THEN /\ e.penalty_amount \notin {None, 0}
                              /\ e.interest_amount \notin {None, 0}
                         ELSE /\ e.penalty_amount \in {None, 0}
                              /\ e.interest_amount \in {None, 0}
                              /\ e.total_liability_with_penalties \in {None, 0}]_vars

\* C14: the lookback length of an estimate is the caller's custom_lookback_months
\* whenever one was given, 0 included, and otherwise the months elapsed since
\* the nexus date capped at 36 and 48 and floored at 0; a lookback window and
\* liability exist exactly when the nexus date is known and the length is
\* positive, so an override of 0 yields no lookback liability.
C14_LookbackLength ==
    \A k \in 1..Len(liability_estimates) :
        LET e == liability_estimates[k]
            nexus_date == nexus_results[e.nexus_result_id].nexus_date
            custom == liability_request.custom_lookback_months
            elapsed == (YearOf(today) - YearOf(nexus_date)) * MonthsPerYear
                           + (MonthOf(today) - MonthOf(nexus_date))
        IN  /\ custom # None => e.lookback_period_months = custom
            /\ custom = None /\ nexus_date # None =>
                   e.lookback_period_months =
                       Max(0, Min(elapsed, Min(DEFAULT_LOOKBACK_MONTHS,
                                               MAX_LOOKBACK_MONTHS)))
            /\ e.lookback_liability_estimate # None <=>
                   nexus_date # None /\ e.lookback_period_months > 0
            /\ e.lookback_start_date # None <=> e.lookback_liability_estimate # None
            /\ custom = 0 => e.lookback_liability_estimate = None

\* the ids of the NexusResult rows with a nexus status
NexusIds == { i \in 1..Len(nexus_results) : NexusStatusFilter(nexus_results[i]) }

\* the estimate positions a step appends for NexusResult row id
AppendedFor(id) ==
    { k \in AppendedEstimates : liability_estimates'[k].nexus_result_id = id }

C16_AllOrNothing ==
    [][/\ nexus_runs' = nexus_runs + 1 /\ nexus_raised' =>
              nexus_results' = nexus_results
       /\ liability_runs' = liability_runs + 1 /\ liability_raised' =>
              liability_estimates' = liability_estimates]_vars

\* C17: at the end of every stage task run exactly one outcome holds: the run
\* committed result rows and the analysis is not FAILED, or it committed no
\* result row and the analysis is FAILED with a non-empty error message.
C17_OneOutcomePerRun ==
    last_run.task # "" =>
        \/ last_run.rows_committed > 0 /\ analysis.status # "FAILED"
        \/ /\ last_run.rows_committed = 0
           /\ analysis.status = "FAILED"
           /\ analysis.error_message # NoMessage

\* C18: a task that raises is retried a bounded number of times (max_retries =
\* 3); the analysis is never FAILED while a retry is pending, and FAILED is
\* terminal.
C18_FailedOnlyAfterRetries ==
    [][/\ \A msg \in task_queue' : msg.retries <= MAX_RETRIES
       /\ analysis'.status = "FAILED" => \A msg \in task_queue' : msg.retries = 0
       /\ analysis.status = "FAILED" => analysis'.status = "FAILED"]_vars

\* C19: a stage is started only after its predecessor completed: the nexus
\* task is never enqueued by its endpoint while the CSV stage has not completed
\* (the analysis is PENDING, UPLOADING, PROCESSING_CSV or FAILED), and the
\* liability task is never enqueued while the nexus stage has not completed
\* (the analysis is not COMPLETED).
C19_StartedAfterPredecessor ==
    [][\A msg \in task_queue' \ task_queue :
           /\ msg.retries = 0 /\ msg.task = "run_nexus_determination" =>
                  analysis.status \notin {"PENDING", "UPLOADING", "PROCESSING_CSV",
                                          "FAILED"}
           /\ msg.retries = 0 /\ msg.task = "calculate_liability" =>
                  analysis.status = "COMPLETED"]_vars

\* ---------------------------------------------- properties: shared processor
\* C20: two process_dataframe calls that interleave in one process each return
\* the valid_rows, invalid_rows and validation_errors of their own batch only,
\* and accept or reject on their own batch: every finished call returned and
\* persisted what a call running alone on its batch returns and persists.
C20_CallsAreIsolated ==
    \A c \in Callers :
        callers[c].pc = "done" =>
            \E alone \in {process_dataframe(callers[c].df, callers[c].db_fails)} :
                /\ callers[c].result = alone.result
                /\ callers[c].persisted = alone.persisted

\* C21: a batch under the quality minimum is rejected without an exception:
\* a run of process_csv_file that reads such a file (the only step that
\* counts a call of process_dataframe) gets a result with
\* success = false whose error states the observed percentage of valid rows,
\* to one decimal, and the 80% minimum; the analysis is FAILED with that
\* message, the run does not raise and no retry is queued.
C21_QualityFailureIsSoft ==
    [][( /\ csv_calls' = csv_calls + 1
         /\ 100 * csv_result'.valid_rows < QUALITY_THRESHOLD * Len(s3_file) )
       => /\ csv_result'.success = FALSE
          /\ \E tenths \in 0..1000 :
               /\ 2 * (1000 * csv_result'.valid_rows - tenths * Len(s3_file)) <= Len(s3_file)
               /\ 2 * (tenths * Len(s3_file) - 1000 * csv_result'.valid_rows) <= Len(s3_file)
               /\ csv_result'.error =
                      "Data quality too low: " \o ToString(tenths \div 10) \o "."
                          \o ToString(tenths % 10) \o "% valid rows (minimum "
                          \o ToString(QUALITY_THRESHOLD) \o "% required)"
          /\ analysis' = [status |-> "FAILED", error_message |-> csv_result'.error]
          /\ last_run'.task = "process_csv_file"
          /\ ~last_run'.raised /\ ~last_run'.retry_pending
          /\ \E msg \in task_queue : task_queue' = task_queue \ {msg}
          /\ transactions' = transactions
    ]_vars

\* C21 witness: a file with two valid rows of three (66.7%) was rejected and
\* the analysis carries the message
C21_Witness ==
    /\ last_run.task = "process_csv_file" /\ ~last_run.raised
    /\ csv_result.called /\ ~csv_result.success
    /\ csv_result.valid_rows = 2 /\ Len(csv_batch) = 3
    /\ analysis.status = "FAILED"
    /\ analysis.error_message = "Data quality too low: 66.7% valid rows (minimum 80% required)"

\* the one row of the file of the row specification has a valid date and state
\* and the transaction built from it was stored
RowStored ==
    /\ csv_result.called /\ Len(csv_batch) = 1 /\ ~csv_db_failed
    /\ csv_batch[1].transaction_date \notin {None, Unparseable}
    /\ csv_batch[1].customer_state \in {"CA", "CALIFORNIA"}

\* the cell of the column is missing: no such column, or a blank cell
MissingCell(row, column) == column \notin DOMAIN row \/ row[column] = None

\* C22: a row with a valid date and state whose gross amount is 0 or blank is
\* valid and stored with gross amount zero.
C22_ZeroOrBlankGrossIsValid ==
    (RowStored /\ csv_batch[1].gross_amount \in {0, None}) =>
        /\ csv_result.valid_rows = 1 /\ csv_result.invalid_rows = 0
        /\ Len(transactions) = 1 /\ transactions[1].gross_amount = 0

\* C22 amended: with a valid date and state, a gross amount of 0 is valid and
\* stored as zero, while a blank gross amount makes the row invalid with
\* "Missing gross amount" (and not "Invalid amount"); a missing tax or shipping
\* amount is stored as zero and the validity of the row does not depend on
\* these two cells.
C22_ZeroGrossValidBlankGrossMissing ==
    RowStored =>
        /\ csv_batch[1].gross_amount = 0 =>
              /\ csv_result.valid_rows = 1
              /\ Len(transactions) = 1 /\ transactions[1].gross_amount = 0
        /\ csv_batch[1].gross_amount = None =>
              /\ csv_result.valid_rows = 0 /\ csv_result.invalid_rows = 1
              /\ transactions = <<>>
              /\ csv_result.validation_errors[1].errors = <<"Missing gross amount">>
        /\ csv_result.valid_rows = 1 <=> csv_batch[1].gross_amount \notin {None, Unparseable}
        /\ csv_result.valid_rows = 1 =>
              /\ MissingCell(csv_batch[1], "tax_collected")
                     => transactions[1].tax_collected = 0
              /\ MissingCell(csv_batch[1], "shipping_amount")
                     => transactions[1].shipping_amount = 0

\* C22 witness: a row with gross amount 0, a blank tax cell and no shipping
\* column was stored with the three amounts zero
C22_Witness ==
    /\ RowStored /\ csv_batch[1].gross_amount = 0
    /\ "tax_collected" \in DOMAIN csv_batch[1] /\ csv_batch[1].tax_collected = None
    /\ "shipping_amount" \notin DOMAIN csv_batch[1]
    /\ Len(transactions) = 1
    /\ transactions[1].gross_amount = 0
    /\ transactions[1].tax_collected = 0 /\ transactions[1].shipping_amount = 0

\* C23: the confidence level of every stored result is HIGH for physical
\* nexus; for economic nexus HIGH when the taxable sales exceed 1.5 times the
\* sales threshold and MEDIUM otherwise; MEDIUM for close-to-threshold; LOW
\* for no nexus on fewer than 10 transactions and HIGH for any other no nexus.
C23_ConfidenceLevel ==
    \A i \in 1..Len(nexus_results) :
        LET r == nexus_results[i]
        IN  r.confidence_level =
                IF r.nexus_status = "NEXUS_PHYSICAL" THEN "HIGH"
                ELSE IF r.nexus_status = "NEXUS_ECONOMIC"
                THEN IF /\ r.sales_threshold # None
                        /\ 2 * r.taxable_sales > 3 * r.sales_threshold
                     THEN "HIGH" ELSE "MEDIUM"
                ELSE IF r.nexus_status = "CLOSE_TO_THRESHOLD" THEN "MEDIUM"
                ELSE IF r.transaction_count < 10 THEN "LOW"
                ELSE "HIGH"

\* the points _assess_risk counts for the assessed estimate e
RiskPoints(e) ==
      (IF e.nexus_status = "NEXUS_PHYSICAL" THEN 2 ELSE 0)
    + (IF e.estimated_liability_mid > 50000 * EstimateScale THEN 2
       ELSE IF e.estimated_liability_mid > 10000 * EstimateScale THEN 1 ELSE 0)
    + (IF e.penalty_amount \notin {None, 0} THEN 3 ELSE 0)
    - (IF e.confidence_level = "LOW" THEN 1 ELSE 0)

NoPenalty(e) == e.penalty_amount \in {None, 0}

C25_RowStoredAtMostOnce ==
    api_requests.upload <= 1 =>
        \A i, j \in 1..Len(transactions) :
            i # j => transactions[i].original_row_number # transactions[j].original_row_number

\* C26: while the first CSV task of the analysis has not finished, no second
\* one is queued: the queue never holds the CSV tasks of two uploads.
C26_OneCsvTaskQueued ==
    \A m, n \in task_queue :
        (m.task = "process_csv_file" /\ n.task = "process_csv_file") => m.id = n.id

\* the physical set determine_nexus works with
PhysicalSet ==
    IF business_profile.missing THEN {}
    ELSE get_physical_nexus_states(business_profile, today)

\* C27: physical nexus takes precedence: a state of the physical set is
\* NEXUS_PHYSICAL whatever its sales; a state outside it is NEXUS_ECONOMIC if
\* the economic test is met, else CLOSE_TO_THRESHOLD if it is close, else
\* NO_NEXUS; every result has exactly one of the four statuses.
C27_PhysicalTakesPrecedence ==
    \A i \in 1..Len(nexus_results) :
        LET r == nexus_results[i]
        IN  /\ r.nexus_status \in
                   {"NEXUS_PHYSICAL", "NEXUS_ECONOMIC", "CLOSE_TO_THRESHOLD", "NO_NEXUS"}
            /\ r.nexus_status = "NEXUS_PHYSICAL" <=> r.state \in PhysicalSet
            /\ r.state \notin PhysicalSet =>
                  /\ r.nexus_status = "NEXUS_ECONOMIC" <=> r.economic_nexus
                  /\ r.nexus_status = "CLOSE_TO_THRESHOLD" <=>
                         (~r.economic_nexus /\ r.close_to_threshold)
                  /\ r.nexus_status = "NO_NEXUS" <=>
                         (~r.economic_nexus /\ ~r.close_to_threshold)

\* C27 witness: a state of the physical set whose sales meet the economic
\* test is NEXUS_PHYSICAL, next to a state with economic nexus alone
C27_Witness ==
    \E i, j \in 1..Len(nexus_results) :
        /\ nexus_results[i].state \in PhysicalSet
        /\ nexus_results[i].economic_nexus
        /\ nexus_results[i].nexus_status = "NEXUS_PHYSICAL"
        /\ nexus_results[j].nexus_status = "NEXUS_ECONOMIC"

\* C28: whenever a result is NEXUS_ECONOMIC and no gross amount is negative,
\* its nexus date is non-null, is the date of a transaction of its state and
\* is no later than the end of the measurement window, and its registration
\* deadline is non-null.
C28_EconomicNexusDate ==
    \A i \in 1..Len(nexus_results) :
        LET r == nexus_results[i]
        IN  ( /\ r.nexus_status = "NEXUS_ECONOMIC"
              /\ \A k \in 1..Len(transactions) : transactions[k].gross_amount >= 0 )
            => /\ r.nexus_date # None
               /\ \E k \in 1..Len(transactions) :
                    /\ transactions[k].customer_state = r.state
                    /\ transactions[k].transaction_date = r.nexus_date
               /\ r.nexus_date <= calculate_measurement_period(r.measurement_period,
                                                               PeriodEnd).end
               /\ r.registration_deadline # None

\* C28 witness: an economic nexus over a rolling window whose nexus date lies
\* before the start of the window, with a registration deadline
C28_Witness ==
    \E i \in 1..Len(nexus_results) :
        LET r == nexus_results[i]
        IN  /\ r.nexus_status = "NEXUS_ECONOMIC"
            /\ \A k \in 1..Len(transactions) : transactions[k].gross_amount >= 0
            /\ r.nexus_date # None
            /\ r.nexus_date < calculate_measurement_period(r.measurement_period,
                                                           PeriodEnd).start
            /\ r.registration_deadline # None

\* the sum of the gross amounts of the transactions of a state in the analysis
\* period that are neither marketplace sales nor exempt sales
UnflaggedSales(state) ==
    LET unflagged == SelectSeq(transactions,
                               LAMBDA t : /\ t.customer_state = state
                                          /\ t.transaction_date >= PeriodStart
                                          /\ t.transaction_date <= PeriodEnd
                                          /\ ~t.is_marketplace_sale /\ ~t.is_exempt_sale)
    IN  SeqSum(Amounts(unflagged), 1)

\* C30: each transaction is deducted from the taxable base at most once: the
\* taxable base of every estimate (in 1/100 units) is the sum of the gross
\* amounts of the period's transactions that are neither marketplace nor
\* exempt, reduced by the exemption rate, and never negative.
C30_DeductedAtMostOnce ==
    \A e \in Estimates :
        /\ e.taxable_sales >= 0
        /\ e.taxable_sales =
               Max(UnflaggedSales(e.state) * (100 - e.exemption_rate_assumed), 0)

====
